---- MODULE Spec2Model ----
(***************************************************************************)
(* Model of scripts/validate.py (ToolValidator): release-asset resolution, *)
(* executable-name synthesis, URL canonicalization, installation-config    *)
(* synthesis, legacy manifest auto-completion, the quality score and the   *)
(* validate_single_tool run with its backup-once file writes, alone and   *)
(* raced by a second process; and of scripts/verify-tools.py               *)
(* (ToolVerifier): the health score, verify_single_tool, the thread pool   *)
(* of verify_tools_batch, update_tool_verification and main's exit code.   *)
(*                                                                         *)
(* Strings are TLA+ strings; a character is a string of length one.        *)
(* File names and URLs are drawn from alphabets without line breaks, so    *)
(* the regular expressions' "." and "$" have no special cases.             *)
(***************************************************************************)
EXTENDS Integers, Sequences, FiniteSets, TLC

VARIABLES
    \* asset-resolution pipeline (AssetSpec)
    response,           \* answer of GET .../releases/latest
    repo_language,      \* repo_metrics["language"]
    release_info,       \* result of _get_github_releases_info
    installation_config,\* result of _generate_installation_config
    stage,              \* "input", "resolved" or "configured"
    \* executable name synthesizer (NameSpec)
    original_name,      \* argument of _generate_generic_executable_name
    executable,         \* its result
    name_done,          \* whether it has run
    \* URL canonicalizer (UrlSpec)
    original_url,       \* argument of _convert_to_latest_url
    latest_url,         \* its result
    relatest_url,       \* the result of converting latest_url once more
    url_stage,          \* "input", "converted" or "reconverted"
    \* scorers (ScoreSpec)
    score_data,         \* tool_data argument of calculate_quality_score
    score_metrics,      \* its metrics argument
    score_weights,      \* the scoring weights of self.validation_rules
    health_metrics,     \* metrics argument of _calculate_health_score
    health_issues,      \* its issues argument
    quality_score,      \* result of calculate_quality_score
    health_score,       \* result of _calculate_health_score
    score_stage,        \* "input", "quality" or "health"
    \* validate_single_tool (Spec)
    manifest_file,      \* content of tool_path
    backup_file,        \* content of tool_path.with_suffix('.json.backup')
    overwritten,        \* whether a completion has ever opened tool_path for writing
    pc,                 \* per run: position in validate_single_tool
    dry_run,            \* per run: the dry_run argument
    autocomplete_enabled, \* per run: self.autocomplete_enabled
    original_tool_data, \* per run: the loaded document
    repo_metrics,       \* per run: metrics of validate_github_repository
    tool_data,          \* per run: the document validated and scored
    results,            \* per run: the results dictionary
    at_begin,           \* per run: both files as they were when the run began
    trace,              \* per run: what the run has done to the files so far
    prev_run,           \* summary of the run that returned last
    \* verify-tools.py main (VerifySpec)
    tool_files,         \* content of each manifest path
    args,               \* the command line: single, update, workers
    futures,            \* per path: "none", "queued", "running", "finished", "yielded"
    outcomes,           \* per path: what the task returned, or that it raised
    batch_results,      \* the results list of verify_tools_batch, or the single result
    update_returns,     \* what update_tool_verification returned, result by result
    main_pc,            \* position in main
    exit_code,          \* the process exit code, -1 while main runs
    files_at_start      \* the manifest files as main found them

assetVars == <<response, repo_language, release_info, installation_config, stage>>
nameVars == <<original_name, executable, name_done>>
urlVars == <<original_url, latest_url, relatest_url, url_stage>>
scoreVars == <<score_data, score_metrics, score_weights, health_metrics,
               health_issues, quality_score, health_score, score_stage>>
fileVars == <<manifest_file, backup_file, overwritten>>
runVars == <<pc, dry_run, autocomplete_enabled, original_tool_data, repo_metrics,
             tool_data, results, at_begin, trace, prev_run>>
verifyVars == <<tool_files, args, futures, outcomes, batch_results, update_returns,
                main_pc, exit_code, files_at_start>>
vars == <<response, repo_language, release_info, installation_config, stage,
          original_name, executable, name_done,
          original_url, latest_url, relatest_url, url_stage,
          score_data, score_metrics, score_weights, health_metrics,
          health_issues, quality_score, health_score, score_stage,
          manifest_file, backup_file, overwritten,
          pc, dry_run, autocomplete_enabled, original_tool_data, repo_metrics,
          tool_data, results, at_begin, trace, prev_run,
          tool_files, args, futures, outcomes, batch_results, update_returns,
          main_pc, exit_code, files_at_start>>

(***************************************************************************)
(* Bounds                                                                  *)
(***************************************************************************)
MaxAssets == 3
MaxWorkers == 2
MaxNameLen == 4
MaxAuthorKeys == 1
MaxUrlSegments == 5
MaxForks == 11

(***************************************************************************)
(* String helpers: the parts of str and re that the code uses              *)
(***************************************************************************)
Char(s, i) == SubSeq(s, i, i)

UpperAlpha == "ABCDEFGHIJKLMNOPQRSTUVWXYZ"
LowerAlpha == "abcdefghijklmnopqrstuvwxyz"
DigitChars == "0123456789"

UpperSet == {Char(UpperAlpha, i) : i \in 1..26}
LowerSet == {Char(LowerAlpha, i) : i \in 1..26}
DigitSet == {Char(DigitChars, i) : i \in 1..10}

IsUpper(c) == c \in UpperSet
IsLower(c) == c \in LowerSet
IsDigit(c) == c \in DigitSet

\* the lower-case letter of each upper-case letter
LowerOf ==
    [c \in UpperSet |-> Char(LowerAlpha, CHOOSE i \in 1..26 : Char(UpperAlpha, i) = c)]

lowerChar(c) == IF IsUpper(c) THEN LowerOf[c] ELSE c

RECURSIVE lower(_)
lower(s) ==
    IF s = "" THEN ""
    ELSE IF Len(s) = 1 THEN lowerChar(s)
    ELSE LET half == Len(s) \div 2
         IN  lower(SubSeq(s, 1, half)) \o lower(SubSeq(s, half + 1, Len(s)))

\* sub in s
Contains(s, sub) ==
    \E i \in 1..(Len(s) - Len(sub) + 1) : SubSeq(s, i, i + Len(sub) - 1) = sub

StartsWith(s, pre) == Len(s) >= Len(pre) /\ SubSeq(s, 1, Len(pre)) = pre

EndsWith(s, suf) ==
    Len(s) >= Len(suf) /\ SubSeq(s, Len(s) - Len(suf) + 1, Len(s)) = suf

\* whether pre occurs in s starting at position i
StartsAt(s, i, pre) ==
    i >= 1 /\ i + Len(pre) - 1 <= Len(s) /\ SubSeq(s, i, i + Len(pre) - 1) = pre

\* first position of character c in s, 0 when there is none
IndexOf(s, c) ==
    IF \E i \in 1..Len(s) : Char(s, i) = c
    THEN CHOOSE i \in 1..Len(s) :
            Char(s, i) = c /\ \A j \in 1..(i - 1) : Char(s, j) # c
    ELSE 0

RECURSIVE SplitSlash(_)
\* the pieces of s between its "/" characters
SplitSlash(s) ==
    LET i == IndexOf(s, "/")
    IN  IF i = 0 THEN <<s>>
        ELSE <<SubSeq(s, 1, i - 1)>> \o SplitSlash(SubSeq(s, i + 1, Len(s)))

\* last position of character c in s, 0 when there is none
LastIndexOf(s, c) ==
    IF \E i \in 1..Len(s) : Char(s, i) = c
    THEN CHOOSE i \in 1..Len(s) :
            Char(s, i) = c /\ \A j \in (i + 1)..Len(s) : Char(s, j) # c
    ELSE 0

\* length of the longest prefix of s made of characters satisfying [a-z]
LetterRun(s) ==
    IF \E i \in 1..Len(s) : ~IsLower(Char(s, i))
    THEN (CHOOSE i \in 1..Len(s) :
            ~IsLower(Char(s, i)) /\ \A j \in 1..(i - 1) : IsLower(Char(s, j))) - 1
    ELSE Len(s)

\* str.rstrip('-_')
RECURSIVE rstripSep(_)
rstripSep(s) ==
    IF s # "" /\ Char(s, Len(s)) \in {"-", "_"}
    THEN rstripSep(SubSeq(s, 1, Len(s) - 1))
    ELSE s

(***************************************************************************)
(* _convert_to_latest_url                                                  *)
(***************************************************************************)
GithubPrefix == "https://github.com/"

\* a final group that may be empty
FilenameGroup_Optional(rest, slash) == TRUE

\* the final group (.+)$ after the "/" found at position slash of rest
FilenameGroup(rest, slash) == slash < Len(rest)

\* the groups of
\*   https://github\.com/([^/]+)/([^/]+)/releases/download/([^/]+)/(.+)$
\* matched at the start of url; matched = FALSE when the URL has another shape
VersionedDownloadMatch(url) ==
    LET no == [matched |-> FALSE, owner |-> "", repo |-> ""]
    IN  IF ~StartsWith(url, GithubPrefix) THEN no
        ELSE
        LET r1 == SubSeq(url, Len(GithubPrefix) + 1, Len(url))
            i1 == IndexOf(r1, "/")
        IN  IF i1 < 2 THEN no
            ELSE
            LET r2 == SubSeq(r1, i1 + 1, Len(r1))
                i2 == IndexOf(r2, "/")
            IN  IF i2 < 2 \/ ~StartsAt(r2, i2 + 1, "releases/download/") THEN no
                ELSE
                LET r3 == SubSeq(r2, i2 + Len("/releases/download/"), Len(r2))
                    i3 == IndexOf(r3, "/")
                IN  IF i3 < 2 \/ ~FilenameGroup(r3, i3) THEN no
                    ELSE [matched |-> TRUE,
                          owner |-> SubSeq(r1, 1, i1 - 1),
                          repo |-> SubSeq(r2, 1, i2 - 1)]

\* a rewrite that puts "latest" in the place of the version
_convert_to_latest_url_InPlace(url) ==
    IF url = "" \/ ~Contains(url, "github.com")
    THEN url
    ELSE LET m == VersionedDownloadMatch(url)
         IN  IF m.matched
             THEN GithubPrefix \o m.owner \o "/" \o m.repo
                      \o "/releases/download/latest/asset"
             ELSE url

_convert_to_latest_url(url) ==
    IF url = "" \/ ~Contains(url, "github.com")
    THEN url
    ELSE LET m == VersionedDownloadMatch(url)
         IN  IF m.matched
             THEN GithubPrefix \o m.owner \o "/" \o m.repo \o "/releases/latest"
             ELSE url

(***************************************************************************)
(* _generate_generic_executable_name                                       *)
(***************************************************************************)
\* (?:[-_]v?\d+|[-_]\d{4}|[-_]windows|[-_]linux|[-_]mac) matched at position i
VersionSuffixAt(s, i) ==
    /\ i <= Len(s)
    /\ Char(s, i) \in {"-", "_"}
    /\ \/ (i + 1 <= Len(s) /\ IsDigit(Char(s, i + 1)))
       \/ (i + 2 <= Len(s) /\ Char(s, i + 1) = "v" /\ IsDigit(Char(s, i + 2)))
       \/ (i + 4 <= Len(s) /\ \A j \in 1..4 : IsDigit(Char(s, i + j)))
       \/ StartsAt(s, i + 1, "windows")
       \/ StartsAt(s, i + 1, "linux")
       \/ StartsAt(s, i + 1, "mac")

\* ^([a-z-]+?) followed by a version suffix: the lengths the group can take
Pattern2Lengths(s) ==
    {k \in 1..Len(s) :
        /\ \A j \in 1..k : IsLower(Char(s, j)) \/ Char(s, j) = "-"
        /\ VersionSuffixAt(s, k + 1)}

\* the smallest member of a non-empty set of numbers (the lazy group's choice)
MinOf(S) == CHOOSE k \in S : \A m \in S : k <= m

_generate_generic_executable_name(name, platform) ==
    LET dot == LastIndexOf(name, ".")
    IN  IF name = "" THEN name
        ELSE IF dot = 0 \/ dot = Len(name) THEN name   \* no \.([^.]+)$
        ELSE
        LET extension == SubSeq(name, dot + 1, Len(name))
            base_name == lower(name)
            name_without_ext == SubSeq(base_name, 1, dot - 1)
            run == LetterRun(name_without_ext)
            p2 == Pattern2Lengths(name_without_ext)
        IN  \* Pattern 1: ^([a-z]+)\d.*
            IF run >= 1 /\ run < Len(name_without_ext)
                  /\ IsDigit(Char(name_without_ext, run + 1))
            THEN SubSeq(name_without_ext, 1, run) \o "." \o extension
            \* Pattern 2
            ELSE IF p2 # {}
            THEN rstripSep(SubSeq(name_without_ext, 1, MinOf(p2))) \o "." \o extension
            \* Pattern 3: ^([a-z]+)
            ELSE IF run >= 1
            THEN SubSeq(name_without_ext, 1, run) \o "." \o extension
            ELSE name

(***************************************************************************)
(* _detect_installation_type                                               *)
(***************************************************************************)
_detect_installation_type(asset_name, language) ==
    LET asset_lower == lower(asset_name)
    IN  IF Contains(asset_lower, ".msi") THEN "msi"
        ELSE IF Contains(asset_lower, ".exe") THEN "executable"
        ELSE IF \E ext \in {".zip", ".tar.gz", ".7z"} : Contains(asset_lower, ext)
             THEN "zip"
        ELSE IF \E ext \in {".deb", ".rpm"} : Contains(asset_lower, ext)
             THEN "package-manager"
        ELSE IF \E ext \in {".sh", ".ps1", ".bat"} : Contains(asset_lower, ext)
             THEN "script"
        ELSE IF language \in {"Python", "JavaScript", "TypeScript"}
             THEN "script"
        ELSE "portable"

(***************************************************************************)
(* _detect_platform_assets                                                 *)
(***************************************************************************)
Platforms == {"windows", "linux", "macos"}

\* One row of platform_patterns.  The row stands for the regular expression
\*   .*<word>.*<ext>$            (nodash = FALSE)
\*   ^[^-]*<ext>$                (nodash = TRUE)
\* where an optional group of the source pattern, (32|64)? or (os)?, is left
\* out of <word> because it matches the empty string.
Rule(word, ext, nodash, priority) ==
    [word |-> word, ext |-> ext, nodash |-> nodash, priority |-> priority]

platform_patterns ==
    [windows |-> << Rule("windows", ".exe", FALSE, 100),
                    Rule("win", ".exe", FALSE, 95),
                    Rule("windows", ".msi", FALSE, 90),
                    Rule("win", ".msi", FALSE, 85),
                    Rule("", ".exe", TRUE, 80),
                    Rule("", ".exe", FALSE, 70),
                    Rule("", ".msi", FALSE, 60),
                    Rule("windows", ".zip", FALSE, 40),
                    Rule("win", ".zip", FALSE, 35),
                    Rule("", ".zip", FALSE, 20) >>,
     linux |->   << Rule("linux", ".deb", FALSE, 100),
                    Rule("ubuntu", ".deb", FALSE, 95),
                    Rule("", ".deb", FALSE, 90),
                    Rule("linux", ".AppImage", FALSE, 85),
                    Rule("", ".AppImage", FALSE, 80),
                    Rule("linux", ".rpm", FALSE, 75),
                    Rule("", ".rpm", FALSE, 70),
                    Rule("linux", ".tar.gz", FALSE, 50),
                    Rule("", ".tar.gz", FALSE, 30) >>,
     macos |->   << Rule("mac", ".dmg", FALSE, 100),
                    Rule("darwin", ".dmg", FALSE, 95),
                    Rule("", ".dmg", FALSE, 90),
                    Rule("mac", ".pkg", FALSE, 80),
                    Rule("darwin", ".pkg", FALSE, 75),
                    Rule("", ".pkg", FALSE, 70),
                    Rule("mac", ".zip", FALSE, 50),
                    Rule("darwin", ".zip", FALSE, 45) >>]

\* the list without its dev entry
exclude_patterns_NoDev == {"debug", "pdb", "symbols", "source", "src"}

exclude_patterns == {"debug", "pdb", "symbols", "dev", "source", "src"}

\* any(re.search(exclude, asset_name_lower) for exclude in exclude_patterns)
IsExcluded(asset_name_lower) ==
    \E exclude \in exclude_patterns : Contains(asset_name_lower, exclude)

\* the rows with their literals in lower case: the patterns are matched
\* with re.IGNORECASE against a name that is already lower-cased
FoldedPatterns ==
    [p \in Platforms |->
        [i \in 1..Len(platform_patterns[p]) |->
            [platform_patterns[p][i] EXCEPT !.word = lower(@), !.ext = lower(@)]]]

\* a match that tests the word and not the extension
RuleMatches_AnyExtension(r, asset_name_lower) == Contains(asset_name_lower, r.word)

\* re.match(pattern, asset_name_lower, re.IGNORECASE), r a folded row
RuleMatches(r, asset_name_lower) ==
    /\ EndsWith(asset_name_lower, r.ext)
    /\ LET stem == SubSeq(asset_name_lower, 1, Len(asset_name_lower) - Len(r.ext))
       IN  /\ Contains(stem, r.word)
           /\ r.nodash => ~Contains(stem, "-")

\* the inner loop: the priority of the best matching rule, -1 when none matches
BestPriority(platform, asset_name_lower) ==
    LET rules == FoldedPatterns[platform]
        hits == {rules[i].priority : i \in {j \in 1..Len(rules) :
                                             RuleMatches(rules[j], asset_name_lower)}}
    IN  IF hits = {} THEN -1
        ELSE CHOOSE q \in hits : \A h \in hits : h <= q

\* the best_match record built for an asset
BestMatch(asset, platform, priority) ==
    [asset |-> asset,
     name |-> asset.name,
     url |-> _convert_to_latest_url(asset.browser_download_url),
     type |-> _detect_installation_type(asset.name, ""),
     executable |-> _generate_generic_executable_name(asset.name, platform),
     priority |-> priority]

\* an update that also replaces a match of the same priority
ScanAsset_LaterWins(acc, asset) ==
    LET asset_name_lower == lower(asset.name)
        best_priority == [p \in Platforms |-> BestPriority(p, asset_name_lower)]
        better == {p \in Platforms :
                     /\ best_priority[p] >= 0
                     /\ \/ p \notin DOMAIN acc
                        \/ best_priority[p] >= acc[p].priority}
    IN  IF IsExcluded(asset_name_lower) THEN acc
        ELSE [p \in (DOMAIN acc) \cup better |->
                IF p \in better
                THEN BestMatch(asset, p, best_priority[p])
                ELSE acc[p]]

\* one iteration of "for asset in assets" on the dictionary built so far
ScanAsset(acc, asset) ==
    LET asset_name_lower == lower(asset.name)
        best_priority == [p \in Platforms |-> BestPriority(p, asset_name_lower)]
        better == {p \in Platforms :
                     /\ best_priority[p] >= 0
                     /\ \/ p \notin DOMAIN acc
                        \/ best_priority[p] > acc[p].priority}
    IN  IF IsExcluded(asset_name_lower) THEN acc
        ELSE [p \in (DOMAIN acc) \cup better |->
                IF p \in better
                THEN BestMatch(asset, p, best_priority[p])
                ELSE acc[p]]

RECURSIVE ScanAssets(_, _, _)
ScanAssets(asset_list, i, acc) ==
    IF i > Len(asset_list) THEN acc
    ELSE ScanAssets(asset_list, i + 1, ScanAsset(acc, asset_list[i]))

\* the scan, before the priority field is removed
DetectWithPriority(asset_list) == ScanAssets(asset_list, 1, <<>>)

\* lines 407-409: platform_data.pop("priority", None)
PopPriority(found) ==
    [p \in DOMAIN found |->
        [asset |-> found[p].asset,
         name |-> found[p].name,
         url |-> found[p].url,
         type |-> found[p].type,
         executable |-> found[p].executable]]

_detect_platform_assets(asset_list) == PopPriority(DetectWithPriority(asset_list))

(***************************************************************************)
(* _get_github_releases_info: resp is the answer of                    *)
(* GET /repos/<owner>/<repo>/releases/latest (status 0 = the request       *)
(* raised).  Keys that the code reads with .get() and that are absent from *)
(* {"has_releases": False} carry the falsy default.                        *)
(***************************************************************************)
PrimaryExts == {".exe", ".msi", ".zip", ".tar.gz", ".deb", ".rpm"}

IsPrimary(asset) == \E ext \in PrimaryExts : Contains(lower(asset.name), ext)

NoAsset == [name |-> "", browser_download_url |-> "", size |-> 0]

PrimaryAsset(asset_list) ==
    IF \E i \in 1..Len(asset_list) : IsPrimary(asset_list[i])
    THEN asset_list[CHOOSE i \in 1..Len(asset_list) :
                        /\ IsPrimary(asset_list[i])
                        /\ \A j \in 1..(i - 1) : ~IsPrimary(asset_list[j])]
    ELSE IF Len(asset_list) > 0 THEN asset_list[1]
    ELSE NoAsset

\* lines 320-324: {"has_releases": False}
NoReleaseInfo ==
    [has_releases |-> FALSE,
     download_url |-> "",
     asset_name |-> "",
     asset_size |-> 0,
     is_multiplatform |-> FALSE,
     platform_assets |-> <<>>]

\* lines 309-319: the dictionary returned for a release
ReleaseInfo(primary_asset, platform_assets) ==
    [has_releases |-> TRUE,
     download_url |-> primary_asset.browser_download_url,
     asset_name |-> primary_asset.name,
     asset_size |-> primary_asset.size,
     is_multiplatform |-> Cardinality(DOMAIN platform_assets) > 1,
     platform_assets |-> platform_assets]

_get_github_releases_info(resp) ==
    IF resp.status = 200
    THEN ReleaseInfo(PrimaryAsset(resp.assets), _detect_platform_assets(resp.assets))
    ELSE NoReleaseInfo

(***************************************************************************)
(* _get_platform_default_args, _generate_installation_config               *)
(***************************************************************************)
_get_platform_default_args(platform, install_type) ==
    IF platform = "windows" /\ install_type = "msi" THEN <<"/quiet", "/norestart">>
    ELSE IF platform = "windows" /\ install_type = "executable" THEN <<"/S">>
    ELSE IF platform = "linux" /\ install_type = "package-manager" THEN <<"--force-yes">>
    ELSE IF platform = "linux" /\ install_type = "executable" THEN <<"--silent">>
    ELSE <<>>

\* defaults that include an empty url
DefaultInstallation_WithUrl ==
    [type |-> "executable", url |-> "", args |-> <<>>, postInstall |-> "", checksum |-> ""]

\* the all-defaults record both flat branches start from
DefaultInstallation ==
    [type |-> "executable", args |-> <<>>, postInstall |-> "", checksum |-> ""]

\* an installer that is silent on every platform
Silent_Always(platform) == TRUE

\* line 515: macOS installs are the ones that are not silent
Silent(platform) == platform # "macos"

PlatformConfig(platform, asset_info) ==
    [type |-> asset_info.type,
     url |-> asset_info.url,
     executable |-> asset_info.executable,
     args |-> _get_platform_default_args(platform, asset_info.type),
     postInstall |-> "",
     checksum |-> "",
     silent |-> Silent(platform)]

\* a test that wants more than one platform
HasPlatformAssets_Several(info) == Cardinality(DOMAIN info.platform_assets) > 1

\* line 503: if release_info.get("platform_assets")
HasPlatformAssets(info) == DOMAIN info.platform_assets # {}

_generate_installation_config(info, metrics) ==
    IF ~info.has_releases THEN DefaultInstallation
    ELSE IF HasPlatformAssets(info)
    THEN [platforms |->
            [p \in DOMAIN info.platform_assets |->
                PlatformConfig(p, info.platform_assets[p])]]
    ELSE IF info.asset_name = "" THEN DefaultInstallation
    ELSE LET typed ==
                [DefaultInstallation EXCEPT
                    !.type = _detect_installation_type(info.asset_name,
                                                       metrics.language)]
             named ==
                ("executable" :>
                    _generate_generic_executable_name(info.asset_name, ""))
                @@ typed
         IN  IF info.download_url # ""
             THEN ("url" :> _convert_to_latest_url(info.download_url)) @@ named
             ELSE named

(***************************************************************************)
(* Manifest documents.  A document is a function from the keys that are    *)
(* present to their values (a JSON object); Get is dict.get.               *)
(***************************************************************************)
Get(d, k, default) == IF k \in DOMAIN d THEN d[k] ELSE default

\* the assignment without its guard
AddIfAbsent_Overwriting(d, k, v) == (k :> v) @@ d

\* completed_data[k] = v under the guard "if k not in completed_data"
AddIfAbsent(d, k, v) == IF k \in DOMAIN d THEN d ELSE (k :> v) @@ d

modern_fields == {"installation", "uninstallation", "compatibility", "slug"}

\* all() in place of any()
_is_legacy_format_UnlessAll(data) == ~\A field \in modern_fields : field \in DOMAIN data

_is_legacy_format(data) == ~\E field \in modern_fields : field \in DOMAIN data

\* the groups of https://github\.com/([^/]+)/([^/]+)/?$ matched at the start
RepoUrlMatch(repo_url) ==
    LET no == [matched |-> FALSE, owner |-> "", repo |-> ""]
    IN  IF ~StartsWith(repo_url, GithubPrefix) THEN no
        ELSE
        LET r1 == SubSeq(repo_url, Len(GithubPrefix) + 1, Len(repo_url))
            i1 == IndexOf(r1, "/")
        IN  IF i1 < 2 THEN no
            ELSE
            LET r2 == SubSeq(r1, i1 + 1, Len(r1))
                r3 == IF EndsWith(r2, "/") THEN SubSeq(r2, 1, Len(r2) - 1) ELSE r2
            IN  IF r3 = "" \/ Contains(r3, "/") THEN no
                ELSE [matched |-> TRUE, owner |-> SubSeq(r1, 1, i1 - 1), repo |-> r3]

\* re.sub(r'[^a-zA-Z0-9\s\-_]', '', name), whitespace being the blank
RECURSIVE KeepSlugChars(_)
KeepSlugChars(s) ==
    IF s = "" THEN ""
    ELSE LET c == Char(s, 1)
             rest == KeepSlugChars(SubSeq(s, 2, Len(s)))
         IN  IF IsLower(c) \/ IsUpper(c) \/ IsDigit(c) \/ c \in {" ", "-", "_"}
             THEN c \o rest ELSE rest

\* re.sub(r'\s+', '-', slug)
RECURSIVE BlanksToHyphen(_)
BlanksToHyphen(s) ==
    IF s = "" THEN ""
    ELSE IF Char(s, 1) = " "
    THEN IF Len(s) >= 2 /\ Char(s, 2) = " "
         THEN BlanksToHyphen(SubSeq(s, 2, Len(s)))
         ELSE "-" \o BlanksToHyphen(SubSeq(s, 2, Len(s)))
    ELSE Char(s, 1) \o BlanksToHyphen(SubSeq(s, 2, Len(s)))

\* str.strip('-')
RECURSIVE stripHyphen(_)
stripHyphen(s) ==
    IF s # "" /\ Char(s, 1) = "-" THEN stripHyphen(SubSeq(s, 2, Len(s)))
    ELSE IF s # "" /\ Char(s, Len(s)) = "-" THEN stripHyphen(SubSeq(s, 1, Len(s) - 1))
    ELSE s

_generate_slug(name) == stripHyphen(lower(BlanksToHyphen(KeepSlugChars(name))))

_map_github_language_to_schema(github_language) ==
    IF github_language \in {"C", "C++"} THEN "C++"
    ELSE IF github_language \in {"C#", "JavaScript", "TypeScript", "Python", "Go",
                                 "Rust", "Java", "PHP", "Ruby", "Shell"}
         THEN github_language
    ELSE IF github_language \in {"PowerShell", "Batchfile"} THEN "Shell"
    ELSE "Other"

\* sorted(list(platforms)) for the three names the scan can add
SortedPlatformNames(S) ==
    (IF "Cross-platform" \in S THEN <<"Cross-platform">> ELSE <<>>)
    \o (IF "Linux" \in S THEN <<"Linux">> ELSE <<>>)
    \o (IF "Windows" \in S THEN <<"Windows">> ELSE <<>>)
    \o (IF "macOS" \in S THEN <<"macOS">> ELSE <<>>)

_detect_platforms_from_releases(asset_list, language) ==
    IF Len(asset_list) = 0
    THEN IF language \in {"Python", "JavaScript", "TypeScript", "Java"}
         THEN <<"Cross-platform">>
         ELSE <<"Windows", "Linux", "macOS">>
    ELSE LET has(terms) == \E i \in 1..Len(asset_list) : \E term \in terms :
                                Contains(lower(asset_list[i].name), term)
             found == (IF has({"win", "windows", ".exe", ".msi"}) THEN {"Windows"} ELSE {})
                      \cup (IF has({"linux", ".deb", ".rpm", ".tar.gz"}) THEN {"Linux"} ELSE {})
                      \cup (IF has({"mac", "macos", "darwin"}) THEN {"macOS"} ELSE {})
         IN  IF found = {} THEN <<"Cross-platform">> ELSE SortedPlatformNames(found)

\* the loop that maps completed_data["platforms"] to compatibility.platforms
RECURSIVE CompatPlatforms(_, _, _)
CompatPlatforms(platforms, i, compat_platforms) ==
    IF i > Len(platforms) THEN compat_platforms
    ELSE LET platform == platforms[i]
             mapped == IF platform = "Windows" THEN "windows"
                       ELSE IF platform = "Linux" THEN "linux"
                       ELSE IF platform = "macOS" THEN "macos"
                       ELSE "windows"      \* "Cross-platform"
         IN  IF platform \in {"Windows", "Linux", "macOS", "Cross-platform"}
             THEN IF \E j \in 1..Len(compat_platforms) : compat_platforms[j] = mapped
                  THEN CompatPlatforms(platforms, i + 1, compat_platforms)
                  ELSE CompatPlatforms(platforms, i + 1, Append(compat_platforms, mapped))
             ELSE CompatPlatforms(platforms, i + 1, compat_platforms)

\* re.sub(r'[^a-z0-9-]', '-', topic.lower())
RECURSIVE TagChars(_)
TagChars(s) ==
    IF s = "" THEN ""
    ELSE LET c == Char(s, 1)
         IN  (IF IsLower(c) \/ IsDigit(c) \/ c = "-" THEN c ELSE "-")
             \o TagChars(SubSeq(s, 2, Len(s)))

RECURSIVE ValidTags(_, _)
ValidTags(topics, i) ==
    IF i > Len(topics) \/ i > 8 THEN <<>>
    ELSE LET tag == TagChars(lower(topics[i]))
         IN  (IF tag # "" /\ Len(tag) <= 20 THEN <<tag>> ELSE <<>>)
             \o ValidTags(topics, i + 1)

(***************************************************************************)
(* autocomplete_legacy_manifest.  info is what its call of                 *)
(* _get_github_releases_info(owner, repo) returns.                         *)
(***************************************************************************)
\* lines 770-772
AddSlug(d) == AddIfAbsent(d, "slug", _generate_slug(Get(d, "name", "")))

\* lines 774-780; description is read from the manifest as it was given
AddShortDescription(d, description) ==
    IF "short_description" \notin DOMAIN d /\ description # ""
    THEN AddIfAbsent(d, "short-description",
                     IF Len(description) > 100
                     THEN SubSeq(description, 1, 97) \o "..."
                     ELSE description)
    ELSE d

\* lines 782-788: the asset list handed to the scan is always empty
AddPlatforms(d, metrics) ==
    AddIfAbsent(d, "platforms", _detect_platforms_from_releases(<<>>, metrics.language))

\* lines 790-792
AddLanguage(d, metrics) ==
    IF metrics.language # ""
    THEN AddIfAbsent(d, "language", _map_github_language_to_schema(metrics.language))
    ELSE d

\* lines 794-796
AddLicense(d, metrics) ==
    IF metrics.license # "" THEN AddIfAbsent(d, "license", metrics.license) ELSE d

\* defaults that assume both hosts
Compatibility_ApolloAssumed(compat_platforms) ==
    [sunshine |-> TRUE,
     apollo |-> TRUE,
     platforms |-> IF compat_platforms # <<>> THEN compat_platforms ELSE <<"windows">>]

\* lines 818-822
Compatibility(compat_platforms) ==
    [sunshine |-> TRUE,
     apollo |-> FALSE,
     platforms |-> IF compat_platforms # <<>> THEN compat_platforms ELSE <<"windows">>]

\* lines 798-822
AddCompatibility(d) ==
    AddIfAbsent(d, "compatibility", Compatibility(CompatPlatforms(d["platforms"], 1, <<>>)))

\* lines 824-826
AddInstallation(d, metrics, info) ==
    AddIfAbsent(d, "installation", _generate_installation_config(info, metrics))

\* lines 828-834
AddUninstallation(d) ==
    AddIfAbsent(d, "uninstallation", [type |-> "manual", path |-> "", args |-> <<>>])

\* lines 836-843
AddConfiguration(d, metrics) ==
    AddIfAbsent(d, "configuration",
                IF StartsWith(metrics.homepage, "http")
                THEN [type |-> "url", url |-> metrics.homepage]
                ELSE [type |-> ""])

\* lines 845-848
AddEmptyOptionals(d) == AddIfAbsent(AddIfAbsent(d, "screenshots", <<>>), "icon", "")

\* lines 850-852
AddAuthor(d, owner) == AddIfAbsent(d, "author", owner)

\* lines 854-856
AddWebsite(d, metrics) ==
    IF metrics.homepage # "" THEN AddIfAbsent(d, "website", metrics.homepage) ELSE d

\* lines 858-868
AddTags(d, valid_tags) ==
    IF valid_tags # <<>> THEN AddIfAbsent(d, "tags", valid_tags) ELSE d

\* lines 764-871: the steps in the order of the code, for a manifest whose
\* repository URL gave owner
CompleteFields(data, metrics, info, owner) ==
    AddTags(
     AddWebsite(
      AddAuthor(
       AddEmptyOptionals(
        AddConfiguration(
         AddUninstallation(
          AddInstallation(
           AddCompatibility(
            AddLicense(
             AddLanguage(
              AddPlatforms(
               AddShortDescription(
                AddSlug(data),
                Get(data, "description", metrics.description)),
               metrics),
              metrics),
             metrics)),
           metrics, info)),
         metrics)),
       owner),
      metrics),
     ValidTags(metrics.topics, 1))

\* the match of the repository URL decides whether anything is completed
CompleteMatched(data, metrics, info, match) ==
    IF ~match.matched THEN data
    ELSE CompleteFields(data, metrics, info, match.owner)

autocomplete_legacy_manifest(data, metrics, info) ==
    IF ~_is_legacy_format(data) THEN data
    ELSE CompleteMatched(data, metrics, info, RepoUrlMatch(Get(data, "repository", "")))

(***************************************************************************)
(* validation-rules.json: the defaults the validator reads.  Weights are   *)
(* in hundredths.                                                          *)
(***************************************************************************)
validation_rules ==
    [minimum_stars |-> 10,
     review_required_score |-> 50,
     forbidden_words |-> {"crack", "keygen"},
     scoring_weights |-> [stars |-> 100, forks |-> 100, recent_activity |-> 100,
                          documentation |-> 100, license |-> 100, community |-> 100]]

(***************************************************************************)
(* validate_github_repository.  api is the answer of GET /repos/<o>/<r>:   *)
(* status 0 stands for a raised exception (timeout, connection error).     *)
(* A metrics record carries last_commit as the number of days since the    *)
(* last push, -1 when the date is unknown.                                 *)
(***************************************************************************)
RECURSIVE JoinComma(_)
JoinComma(parts) ==
    IF Len(parts) = 0 THEN ""
    ELSE IF Len(parts) = 1 THEN parts[1]
    ELSE parts[1] \o ", " \o JoinComma(Tail(parts))

validate_github_repository(repo_url, api) ==
    IF ~StartsWith(repo_url, GithubPrefix)
    THEN [valid |-> FALSE, status |-> "[ERROR] Not a GitHub URL", metrics |-> <<>>]
    ELSE IF ~RepoUrlMatch(repo_url).matched
    THEN [valid |-> FALSE, status |-> "[ERROR] Invalid GitHub URL format", metrics |-> <<>>]
    ELSE IF api.status = 0
    THEN [valid |-> FALSE, status |-> "[ERROR] Error accessing repository", metrics |-> <<>>]
    ELSE IF api.status = 404
    THEN [valid |-> FALSE, status |-> "[ERROR] Repository not found", metrics |-> <<>>]
    ELSE IF api.status # 200
    THEN [valid |-> FALSE, status |-> "[ERROR] GitHub API error", metrics |-> <<>>]
    ELSE LET metrics == api.data
             warnings ==
                (IF metrics.archived THEN <<"[WARNING] Repository is archived">> ELSE <<>>)
                \o (IF metrics.disabled THEN <<"[WARNING] Repository is disabled">> ELSE <<>>)
                \o (IF metrics.stars < validation_rules.minimum_stars
                    THEN <<"[WARNING] Low star count">> ELSE <<>>)
         IN  [valid |-> TRUE,
              status |-> "[OK] Repository accessible"
                         \o (IF warnings # <<>>
                             THEN " (" \o JoinComma(warnings) \o ")" ELSE ""),
              metrics |-> metrics]

(***************************************************************************)
(* validate_installation_metadata.  info is what its own call of           *)
(* _get_github_releases_info returns.  Platforms are visited in a fixed    *)
(* order; the order of the messages is immaterial.                         *)
(***************************************************************************)
PlatformPrefix(platform) ==
    IF platform = "windows" THEN "[WINDOWS]"
    ELSE IF platform = "linux" THEN "[LINUX]"
    ELSE "[MACOS]"

PlatformMessages(platform, config, releases_info) ==
    LET prefix == PlatformPrefix(platform)
        type == Get(config, "type", "")
    IN  (IF type = "" THEN <<prefix \o " Missing installation type">> ELSE <<>>)
        \o (IF Get(config, "download_strategy", "github_releases") = "github_releases"
            THEN IF ~releases_info.has_releases
                 THEN <<prefix \o " GitHub releases strategy specified but no releases found">>
                 ELSE IF /\ Get(config, "file_pattern", "") # ""
                         /\ DOMAIN releases_info.platform_assets # {}
                         /\ platform \notin DOMAIN releases_info.platform_assets
                      THEN <<prefix \o " No assets found for platform despite file pattern">>
                      ELSE <<>>
            ELSE <<>>)
        \o (IF /\ Get(config, "silent", TRUE)
               /\ Get(config, "install_flags", <<>>) = <<>>
               /\ type \in {"executable", "msi"}
            THEN <<prefix \o " Silent installation enabled but no install_flags specified">>
            ELSE <<>>)
        \o (IF Get(config, "checksum_verification", TRUE) /\ Get(config, "checksum", "") = ""
            THEN <<prefix \o " Checksum verification enabled but no checksum provided">>
            ELSE <<>>)

\* lines 169-179: the release info the platform checks use
ReleasesInfoFor(repo_url, info) ==
    IF Contains(repo_url, "github.com") /\ RepoUrlMatch(repo_url).matched
    THEN info
    ELSE NoReleaseInfo

\* lines 182-212 for one platform key
MessagesOf(platform, platforms, releases_info) ==
    IF platform \in DOMAIN platforms
    THEN PlatformMessages(platform, platforms[platform], releases_info)
    ELSE <<>>

\* lines 164-212
NewFormatMessages(platforms, releases_info) ==
    IF DOMAIN platforms = {}
    THEN <<"[ERROR] Empty platforms configuration">>
    ELSE MessagesOf("windows", platforms, releases_info)
         \o MessagesOf("linux", platforms, releases_info)
         \o MessagesOf("macos", platforms, releases_info)

\* lines 155-222 for the installation section read at line 155
InstallationMessages(installation, repo_url, info) ==
    IF DOMAIN installation = {}
    THEN <<"[ERROR] Missing installation metadata">>
    ELSE IF "platforms" \in DOMAIN installation
    THEN NewFormatMessages(installation["platforms"], ReleasesInfoFor(repo_url, info))
    ELSE <<"[WARNING] Using deprecated single-platform installation format">>
         \o (IF Get(installation, "type", "") = ""
             THEN <<"[ERROR] Missing installation type">> ELSE <<>>)

validate_installation_metadata(data, metrics, info) ==
    InstallationMessages(Get(data, "installation", <<>>), Get(data, "repository", ""), info)

IsError(message) == StartsWith(message, "[ERROR]")

HasError(messages) == \E i \in 1..Len(messages) : IsError(messages[i])

\* some message of the list is one of S
Recorded(messages, S) == \E i \in 1..Len(messages) : messages[i] \in S

(***************************************************************************)
(* validate_content_safety                                                 *)
(***************************************************************************)
RECURSIVE JoinBlank(_)
JoinBlank(parts) ==
    IF Len(parts) = 0 THEN ""
    ELSE IF Len(parts) = 1 THEN parts[1]
    ELSE parts[1] \o " " \o JoinBlank(Tail(parts))

validate_content_safety(data) ==
    LET text_fields == << Get(data, "name", ""), Get(data, "description", ""),
                          JoinBlank(Get(data, "tags", <<>>)) >>
    IN  IF \E i \in 1..3 : \E word \in validation_rules.forbidden_words :
               Contains(lower(text_fields[i]), word)
        THEN <<"[WARNING] Contains potentially unsafe word">>
        ELSE <<>>

(***************************************************************************)
(* calculate_quality_score.  Sub-scores are kept in half points and        *)
(* weights in hundredths, so the sum is in 1/200 of a point; int()         *)
(* truncates towards zero.  last_commit is the number of days since the    *)
(* last commit, -1 when the metric is empty and -2 when strptime raises.   *)
(***************************************************************************)
Min(a, b) == IF a <= b THEN a ELSE b

Max(a, b) == IF a >= b THEN a ELSE b

TruncDiv(a, b) == IF a >= 0 THEN a \div b ELSE -((-a) \div b)

\* a cap that counts nothing above it
StarsScore_NothingAboveCap(stars) == IF stars <= 60 THEN stars ELSE 0

\* line 231: min(30, stars * 0.5), in half points
StarsScore(stars) == Min(60, stars)

\* a return without the upper limit
QualityClamp_None(score) == score

\* line 278: min(100, int(score))
QualityClamp(score) == Min(100, score)

QualityScore(data, metrics, weights) ==
    LET stars_score == StarsScore(metrics.stars)
        forks_score == Min(40, metrics.forks * 4)
        activity_score ==
            IF metrics.last_commit = -1 THEN 0
            ELSE IF metrics.last_commit = -2 THEN 10
            ELSE IF metrics.last_commit <= 30 THEN 40
            ELSE IF metrics.last_commit <= 90 THEN 30
            ELSE IF metrics.last_commit <= 365 THEN 20
            ELSE 10
        doc_score ==
            (IF Get(data, "documentation", "") # "" THEN 20 ELSE 0)
            + (IF Len(Get(data, "description", "")) > 50 THEN 10 ELSE 0)
        license_score == IF Get(data, "license", "") # "" THEN 20 ELSE 0
        community_score ==
            (IF Get(Get(data, "maintainer", <<>>), "contact", "") # "" THEN 5 ELSE 0)
            + (IF Get(data, "tags", <<>>) # <<>> THEN 5 ELSE 0)
        score == stars_score * weights.stars
                 + forks_score * weights.forks
                 + activity_score * weights.recent_activity
                 + doc_score * weights.documentation
                 + license_score * weights.license
                 + community_score * weights.community
    IN  QualityClamp(TruncDiv(score, 200))

\* line 226: the weights are those of validation-rules.json
calculate_quality_score(data, metrics) ==
    QualityScore(data, metrics, validation_rules.scoring_weights)

(***************************************************************************)
(* verify-tools.py: _calculate_health_score.  The score is kept in         *)
(* twentieths of a point.  pushed_at is the number of days since the last  *)
(* push, -1 when the metric is empty and -2 when fromisoformat raises.     *)
(***************************************************************************)
critical_issues == {"archived", "disabled", "private"}

\* any(critical in issue.lower() for critical in critical_issues)
IsCritical(issue) == \E critical \in critical_issues : Contains(lower(issue), critical)

\* line 168: score -= 50
CriticalDeduction == 50

\* lines 164-168
RECURSIVE Deduct(_, _, _)
Deduct(issues, i, score) ==
    IF i > Len(issues) THEN score
    ELSE Deduct(issues, i + 1,
                IF IsCritical(issues[i]) THEN score - CriticalDeduction ELSE score)

\* an activity score added to the whole base
WithActivity_WholeBase(score, pushed_at) ==
    IF pushed_at = -1 THEN score * 16
    ELSE IF pushed_at = -2 THEN score * 18
    ELSE score * 20
         + 20 * (IF pushed_at <= 30 THEN 25
                 ELSE IF pushed_at <= 90 THEN 20
                 ELSE IF pushed_at <= 180 THEN 15
                 ELSE IF pushed_at <= 365 THEN 10
                 ELSE 5)

\* lines 170-190
WithActivity(score, pushed_at) ==
    IF pushed_at = -1 THEN score * 16
    ELSE IF pushed_at = -2 THEN score * 18
    ELSE score * 15
         + 20 * (IF pushed_at <= 30 THEN 25
                 ELSE IF pushed_at <= 90 THEN 20
                 ELSE IF pushed_at <= 180 THEN 15
                 ELSE IF pushed_at <= 365 THEN 10
                 ELSE 5)

\* lines 192-225
Bonuses(metrics) ==
    (IF metrics.has_readme THEN 5 ELSE 0)
    + (IF metrics.has_ci THEN 5 ELSE 0)
    + (IF metrics.stars >= 100 THEN 10
       ELSE IF metrics.stars >= 50 THEN 5
       ELSE IF metrics.stars >= 10 THEN 2
       ELSE 0)
    + (IF metrics.contributors >= 10 THEN 5
       ELSE IF metrics.contributors >= 5 THEN 3
       ELSE IF metrics.contributors >= 2 THEN 1
       ELSE 0)
    + (IF metrics.recent_commits >= 10 THEN 5
       ELSE IF metrics.recent_commits >= 5 THEN 3
       ELSE IF metrics.recent_commits >= 1 THEN 1
       ELSE 0)

_calculate_health_score(metrics, issues) ==
    Max(0, Min(100, TruncDiv(WithActivity(Deduct(issues, 1, 100), metrics.pushed_at)
                                 + 20 * Bonuses(metrics),
                             20)))

(***************************************************************************)
(* Specification: inputs                                                   *)
(***************************************************************************)
Asset(n) ==
    [name |-> n,
     browser_download_url |->
        "https://github.com/obsproject/obs-studio/releases/download/31.1.2/" \o n,
     size |-> 1]

ScenarioA ==
    << Asset("OBS-Studio-31.1.2-Windows-x64.zip"),
       Asset("obs-studio_31.1.2-1_amd64.deb"),
       Asset("obs-studio-31.1.2-macos.dmg") >>

AssetNames ==
    {"OBS-Studio-31.1.2-Windows-x64.zip", "obs-studio_31.1.2-1_amd64.deb",
     "obs-studio-31.1.2-macos.dmg", "tool-dev.exe", "Tool-Debug.dmg",
     "tool_src.tar.gz", "Tool.exe", "Setup.exe", "tool-win64.exe", "tool-mac.zip",
     "notes.txt"}

AssetPool == {Asset(n) : n \in AssetNames}

RECURSIVE SeqsUpTo(_, _)
SeqsUpTo(S, n) ==
    IF n = 0 THEN {<<>>}
    ELSE LET shorter == SeqsUpTo(S, n - 1)
         IN  shorter \cup {Append(q, x) : q \in shorter, x \in S}

\* answers of the releases/latest endpoint: 404, or a release with its assets
NoRelease == [status |-> 404, assets |-> <<>>]
Release(asset_list) == [status |-> 200, assets |-> asset_list]

NameAlphabet == {"a", "z", "T", "7", "v", "-", "_", "."}

RECURSIVE StringsUpTo(_, _)
StringsUpTo(A, n) ==
    IF n = 0 THEN {""}
    ELSE LET shorter == StringsUpTo(A, n - 1)
         IN  shorter \cup {w \o c : w \in shorter, c \in A}

NamePool ==
    StringsUpTo(NameAlphabet, MaxNameLen)
    \cup {"7z2501-arm.zip", "7z2502-x64.zip", "discord0309.exe", "my-tool-v1.0.zip",
          "Tool-1.0.zip", "Tool-2.3.zip"}

Absent == [kind |-> "absent", doc |-> <<>>]
Partial == [kind |-> "partial", doc |-> <<>>]   \* truncated, not valid JSON
Json(d) == [kind |-> "json", doc |-> d]

\* results that start out valid
NoResults_Valid ==
    [valid |-> TRUE, errors |-> <<>>, warnings |-> <<>>, metrics |-> <<>>,
     score |-> 0, autocompleted |-> FALSE, would_autocomplete |-> FALSE]

NoResults ==
    [valid |-> FALSE, errors |-> <<>>, warnings |-> <<>>, metrics |-> <<>>,
     score |-> 0, autocompleted |-> FALSE, would_autocomplete |-> FALSE]

\* what a run has done so far: the release info its completion used, the
\* files it opened for writing, the write that raised
NoTrace == [release_info |-> NoReleaseInfo, completed |-> FALSE,
            backup_opened |-> FALSE, manifest_opened |-> FALSE,
            failed |-> "none"]

\* the run that returned last: whether it was a completing run (not dry,
\* auto-completion enabled) that began on a legacy manifest, and whether it
\* opened the manifest file for writing
NoRun == [completing_on_legacy |-> FALSE, rewrote |-> FALSE]

Procs == {1}

AssetIdle ==
    /\ response = NoRelease
    /\ repo_language = ""
    /\ release_info = _get_github_releases_info(NoRelease)
    /\ installation_config = <<>>
    /\ stage = "input"

NameIdle ==
    /\ original_name = ""
    /\ executable = ""
    /\ name_done = FALSE

NoQualityMetrics == [stars |-> 0, forks |-> 0, last_commit |-> -1]

NoHealthMetrics ==
    [pushed_at |-> -1, has_readme |-> FALSE, has_ci |-> FALSE, stars |-> 0,
     contributors |-> 0, recent_commits |-> 0]

ScoreIdle ==
    /\ score_data = <<>>
    /\ score_metrics = NoQualityMetrics
    /\ score_weights = validation_rules.scoring_weights
    /\ health_metrics = NoHealthMetrics
    /\ health_issues = <<>>
    /\ quality_score = 0
    /\ health_score = 0
    /\ score_stage = "input"

ToolPaths == <<"a.json", "b.json">>

Paths == {ToolPaths[i] : i \in 1..Len(ToolPaths)}

NoOutcome == [raised |-> FALSE, result |-> <<>>]

VerifyIdle ==
    /\ tool_files = [path \in Paths |-> Absent]
    /\ args = [single |-> "", update |-> FALSE, workers |-> 1]
    /\ futures = [path \in Paths |-> "none"]
    /\ outcomes = [path \in Paths |-> NoOutcome]
    /\ batch_results = <<>>
    /\ update_returns = <<>>
    /\ main_pc = "start"
    /\ exit_code = -1
    /\ files_at_start = [path \in Paths |-> Absent]

UrlIdle ==
    /\ original_url = ""
    /\ latest_url = ""
    /\ relatest_url = ""
    /\ url_stage = "input"

RunIdle ==
    /\ pc = [p \in Procs |-> "idle"]
    /\ dry_run = [p \in Procs |-> FALSE]
    /\ autocomplete_enabled = [p \in Procs |-> TRUE]
    /\ original_tool_data = [p \in Procs |-> <<>>]
    /\ repo_metrics = [p \in Procs |-> <<>>]
    /\ tool_data = [p \in Procs |-> <<>>]
    /\ results = [p \in Procs |-> NoResults]
    /\ at_begin = [p \in Procs |-> [manifest |-> Absent, backup |-> Absent]]
    /\ trace = [p \in Procs |-> NoTrace]
    /\ prev_run = NoRun

(***************************************************************************)
(* AssetSpec: a release answer goes through _get_github_releases_info      *)
(* (which calls _detect_platform_assets) and _generate_installation_config *)
(***************************************************************************)
AssetInit ==
    /\ response \in {NoRelease} \cup {Release(l) : l \in SeqsUpTo(AssetPool, MaxAssets)}
    /\ repo_language \in {"", "Python"}
    /\ release_info = _get_github_releases_info(NoRelease)
    /\ installation_config = <<>>
    /\ stage = "input"
    /\ NameIdle
    /\ manifest_file = Absent
    /\ backup_file = Absent
    /\ overwritten = FALSE
    /\ RunIdle
    /\ VerifyIdle
    /\ ScoreIdle
    /\ UrlIdle

GetReleasesInfo ==
    /\ stage = "input"
    /\ release_info' = _get_github_releases_info(response)
    /\ stage' = "resolved"
    /\ UNCHANGED <<response, repo_language, installation_config>>
    /\ UNCHANGED <<nameVars, fileVars, runVars, urlVars, scoreVars, verifyVars>>

GenerateInstallationConfig ==
    /\ stage = "resolved"
    /\ installation_config' =
          _generate_installation_config(release_info, [language |-> repo_language])
    /\ stage' = "configured"
    /\ UNCHANGED <<response, repo_language, release_info>>
    /\ UNCHANGED <<nameVars, fileVars, runVars, urlVars, scoreVars, verifyVars>>

AssetNext == GetReleasesInfo \/ GenerateInstallationConfig

AssetSpec == AssetInit /\ [][AssetNext]_vars

(***************************************************************************)
(* NameSpec: a file name goes through _generate_generic_executable_name    *)
(***************************************************************************)
NameInit ==
    /\ original_name \in NamePool
    /\ executable = ""
    /\ name_done = FALSE
    /\ AssetIdle
    /\ manifest_file = Absent
    /\ backup_file = Absent
    /\ overwritten = FALSE
    /\ RunIdle
    /\ VerifyIdle
    /\ ScoreIdle
    /\ UrlIdle

GenerateGenericExecutableName ==
    /\ ~name_done
    /\ executable' = _generate_generic_executable_name(original_name, "")
    /\ name_done' = TRUE
    /\ UNCHANGED <<original_name, assetVars, fileVars, runVars, urlVars, scoreVars, verifyVars>>

NameNext == GenerateGenericExecutableName

NameSpec == NameInit /\ [][NameNext]_vars

(***************************************************************************)
(* UrlSpec: a URL goes through _convert_to_latest_url, and the result goes *)
(* through it once more                                                    *)
(***************************************************************************)
UrlHeads ==
    {"https://github.com/", "https://github.com/own/rep/", "http://github.com/",
     "https://gitlab.com/", ""}

UrlSegments == {"o", "releases", "download", "v1", ""}

RECURSIVE JoinSlash(_)
JoinSlash(parts) ==
    IF parts = <<>> THEN ""
    ELSE IF Len(parts) = 1 THEN parts[1]
    ELSE parts[1] \o "/" \o JoinSlash(Tail(parts))

UrlPool ==
    {h \o JoinSlash(q) : h \in UrlHeads, q \in SeqsUpTo(UrlSegments, MaxUrlSegments)}
    \cup {Asset(n).browser_download_url : n \in AssetNames}
    \cup {"https://github.com/obsproject/obs-studio/releases/latest"}

UrlInit ==
    /\ original_url \in UrlPool
    /\ latest_url = ""
    /\ relatest_url = ""
    /\ url_stage = "input"
    /\ AssetIdle
    /\ NameIdle
    /\ manifest_file = Absent
    /\ backup_file = Absent
    /\ overwritten = FALSE
    /\ RunIdle
    /\ VerifyIdle
    /\ ScoreIdle

ConvertToLatestUrl ==
    /\ url_stage = "input"
    /\ latest_url' = _convert_to_latest_url(original_url)
    /\ url_stage' = "converted"
    /\ UNCHANGED <<original_url, relatest_url>>
    /\ UNCHANGED <<assetVars, nameVars, fileVars, runVars, scoreVars, verifyVars>>

ConvertAgain ==
    /\ url_stage = "converted"
    /\ relatest_url' = _convert_to_latest_url(latest_url)
    /\ url_stage' = "reconverted"
    /\ UNCHANGED <<original_url, latest_url>>
    /\ UNCHANGED <<assetVars, nameVars, fileVars, runVars, scoreVars, verifyVars>>

UrlNext == ConvertToLatestUrl \/ ConvertAgain

UrlSpec == UrlInit /\ [][UrlNext]_vars

(***************************************************************************)
(* Spec: validate_single_tool runs, one after the other, on one manifest   *)
(* file.  Every run draws its flags as main() sets them and its remote     *)
(* answers and write outcomes from the sets below.                         *)
(***************************************************************************)
LongDescription ==
    "Free and open source software for video recording and live streaming, with real time capture, scene composition and encoding."

AuthorKeys ==
    {"description", "slug", "short-description", "short_description", "platforms",
     "language", "license", "compatibility", "installation", "uninstallation",
     "configuration", "screenshots", "icon", "author", "website", "tags",
     "documentation", "maintainer"}

\* the value a manifest author gave to a key; no completion produces it
AuthorValue(k) ==
    CASE k = "name" -> "OBS Studio!"
      [] k = "description" -> LongDescription
      [] k = "slug" -> "author-slug"
      [] k = "short-description" -> "Author summary"
      [] k = "short_description" -> "Author summary"
      [] k = "platforms" -> <<"Linux", "BSD">>
      [] k = "language" -> "Author language"
      [] k = "license" -> "Author license"
      [] k = "compatibility" ->
            [sunshine |-> FALSE, apollo |-> TRUE, platforms |-> <<"linux">>]
      [] k = "installation" ->
            [type |-> "script", args |-> <<"--author">>, postInstall |-> "", checksum |-> ""]
      [] k = "uninstallation" -> [type |-> "script", path |-> "/opt/author", args |-> <<>>]
      [] k = "configuration" -> [type |-> "file"]
      [] k = "screenshots" -> <<"author.png">>
      [] k = "icon" -> "author.ico"
      [] k = "author" -> "Author"
      [] k = "website" -> "https://author.example"
      [] k = "tags" -> <<"author-tag">>
      [] k = "documentation" -> "https://author.example/docs"
      [] k = "maintainer" -> [contact |-> "author@example.com"]

RepoUrls ==
    {"https://github.com/obsproject/obs-studio",
     "https://github.com/obsproject",
     "https://gitlab.com/obsproject/obs-studio"}

\* manifests: a name, at most MaxAuthorKeys further keys, a repository or none
InitDocs ==
    LET keysets == {K \in SUBSET AuthorKeys : Cardinality(K) <= MaxAuthorKeys}
        base(K) == [k \in K \cup {"name"} |-> AuthorValue(k)]
    IN  {base(K) : K \in keysets}
        \cup {("repository" :> u) @@ base(K) : K \in keysets, u \in RepoUrls}

StaleBackup == Json([name |-> "Older OBS"])

RichMetrics ==
    [stars |-> 70, forks |-> 12, last_commit |-> 10, language |-> "Python",
     license |-> "GPL-2.0", archived |-> FALSE, disabled |-> FALSE,
     description |-> "OBS Studio", homepage |-> "https://obsproject.com",
     topics |-> <<"Game_Streaming", "obs">>]

PoorMetrics ==
    [stars |-> 0, forks |-> 0, last_commit |-> -1, language |-> "",
     license |-> "", archived |-> TRUE, disabled |-> FALSE,
     description |-> "", homepage |-> "", topics |-> <<>>]

ApiAnswers ==
    {[status |-> 0, data |-> <<>>], [status |-> 404, data |-> <<>>],
     [status |-> 500, data |-> <<>>],
     [status |-> 200, data |-> RichMetrics], [status |-> 200, data |-> PoorMetrics]}

ReleaseAnswers == {NoRelease, Release(ScenarioA), Release(<<Asset("notes.txt")>>)}

\* what _get_github_releases_info makes of these answers
ReleaseInfos == {_get_github_releases_info(answer) : answer \in ReleaseAnswers}

\* open() raised; open() truncated the file and the dump raised; all written
WriteOutcomes == {"open_failed", "dump_failed", "written"}

\* the kinds of message list _verify_executable_patterns returns
PatternVerifications ==
    {<<"[INFO] Cannot access latest release for verification">>,
     <<"[OK] pattern matches a release asset">>,
     <<"[WARNING] pattern found no matches in release assets">>,
     <<"[ERROR] Pattern verification failed">>}

Init ==
    /\ manifest_file \in {Absent, Partial} \cup {Json(d) : d \in InitDocs}
    /\ backup_file \in {Absent, StaleBackup}
    /\ overwritten = FALSE
    /\ RunIdle
    /\ VerifyIdle
    /\ ScoreIdle
    /\ UrlIdle
    /\ AssetIdle
    /\ NameIdle

AddErrors(r, messages) == [r EXCEPT !.errors = @ \o messages]
AddWarnings(r, messages) == [r EXCEPT !.warnings = @ \o messages]

\* a filing of the pattern messages by their severity tag
FilePatternVerification_BySeverity(r, messages) ==
    AddWarnings(AddErrors(r, SelectSeq(messages, IsError)),
                SelectSeq(messages, LAMBDA m : ~IsError(m)))

\* line 962: results["warnings"].extend(pattern_verification)
FilePatternVerification(r, messages) == AddWarnings(r, messages)

\* lines 875-888 and 1114-1117: a run starts and loads the manifest
Begin(p) ==
    /\ pc[p] = "idle"
    /\ \E no_autocomplete, dry \in BOOLEAN :
          /\ dry_run' = [dry_run EXCEPT ![p] = dry]
          /\ autocomplete_enabled' =
                [autocomplete_enabled EXCEPT ![p] = ~no_autocomplete /\ ~dry]
    /\ at_begin' = [at_begin EXCEPT ![p] = [manifest |-> manifest_file,
                                            backup |-> backup_file]]
    /\ trace' = [trace EXCEPT ![p] = NoTrace]
    /\ IF manifest_file.kind = "json"
       THEN /\ original_tool_data' = [original_tool_data EXCEPT ![p] = manifest_file.doc]
            /\ results' = [results EXCEPT ![p] = NoResults]
            /\ pc' = [pc EXCEPT ![p] = "repository"]
       ELSE \* _load_tool_entry raises ValidationError, caught at line 986
            /\ results' = [results EXCEPT
                             ![p] = AddErrors(NoResults, <<"[ERROR] Validation error">>)]
            /\ pc' = [pc EXCEPT ![p] = "return"]
            /\ UNCHANGED original_tool_data
    /\ UNCHANGED <<repo_metrics, tool_data, prev_run>>
    /\ UNCHANGED <<fileVars, assetVars, nameVars, urlVars, scoreVars, verifyVars>>

\* lines 890-897
ValidateRepository(p) ==
    /\ pc[p] = "repository"
    /\ IF "repository" \notin DOMAIN original_tool_data[p]
       THEN \* KeyError, caught at line 986
            /\ results' = [results EXCEPT
                             ![p] = AddErrors(@, <<"[ERROR] Validation error">>)]
            /\ pc' = [pc EXCEPT ![p] = "return"]
            /\ UNCHANGED repo_metrics
       ELSE \E api \in ApiAnswers :
            LET checked == validate_github_repository(
                               original_tool_data[p]["repository"], api)
            IN  IF checked.valid
                THEN /\ results' = [results EXCEPT ![p].metrics = checked.metrics]
                     /\ repo_metrics' = [repo_metrics EXCEPT ![p] = checked.metrics]
                     /\ pc' = [pc EXCEPT ![p] = "complete"]
                ELSE /\ results' = [results EXCEPT
                                      ![p] = AddErrors(@, <<checked.status>>)]
                     /\ pc' = [pc EXCEPT ![p] = "return"]
                     /\ UNCHANGED repo_metrics
    /\ UNCHANGED <<dry_run, autocomplete_enabled, original_tool_data, tool_data,
                   at_begin, trace, prev_run>>
    /\ UNCHANGED <<fileVars, assetVars, nameVars, urlVars, scoreVars, verifyVars>>

\* the fields a dry run reports as new
NewFields(completed_data, original) == DOMAIN completed_data \ DOMAIN original

\* the branches with the dry-run test dropped
CompletionMode_DryIgnored(dry, enabled, is_legacy) ==
    IF is_legacy /\ (enabled \/ dry) THEN "save" ELSE "none"

\* the branch taken at lines 903 and 916
CompletionMode(dry, enabled, is_legacy) ==
    IF dry /\ is_legacy THEN "dry"
    ELSE IF enabled /\ is_legacy THEN "save"
    ELSE "none"

\* lines 899-918
AutoComplete(p) ==
    /\ pc[p] = "complete"
    /\ LET original == original_tool_data[p]
           mode == CompletionMode(dry_run[p], autocomplete_enabled[p],
                                  _is_legacy_format(original))
       IN  IF mode = "dry"
           THEN \E info \in ReleaseInfos :
                LET completed_data ==
                        autocomplete_legacy_manifest(original, repo_metrics[p], info)
                IN  /\ tool_data' = [tool_data EXCEPT ![p] = completed_data]
                    /\ results' = [results EXCEPT
                          ![p] = AddWarnings(
                                    [@ EXCEPT !.would_autocomplete = TRUE],
                                    <<"[DRY RUN] Would auto-complete legacy manifest">>
                                    \o (IF NewFields(completed_data, original) # {}
                                        THEN <<"[DRY RUN] Would add fields">>
                                        ELSE <<>>))]
                    /\ trace' = [trace EXCEPT ![p].release_info = info,
                                              ![p].completed = TRUE]
                    /\ pc' = [pc EXCEPT ![p] = "schema"]
           ELSE IF mode = "save"
           THEN \E info \in ReleaseInfos :
                /\ tool_data' = [tool_data EXCEPT ![p] =
                        autocomplete_legacy_manifest(original, repo_metrics[p], info)]
                /\ results' = [results EXCEPT ![p].autocompleted = TRUE]
                /\ trace' = [trace EXCEPT ![p].release_info = info,
                                          ![p].completed = TRUE]
                /\ pc' = [pc EXCEPT ![p] = "backup"]
           ELSE /\ tool_data' = [tool_data EXCEPT ![p] = original]
                /\ pc' = [pc EXCEPT ![p] = "schema"]
                /\ UNCHANGED <<results, trace>>
    /\ UNCHANGED <<dry_run, autocomplete_enabled, original_tool_data, repo_metrics,
                   at_begin, prev_run>>
    /\ UNCHANGED <<fileVars, assetVars, nameVars, urlVars, scoreVars, verifyVars>>

SaveFailed(r) == AddWarnings(r, <<"[WARNING] Could not save auto-completed manifest">>)

\* the write without the existence test
BackupNeeded_Always(backup) == TRUE

\* line 924: not backup_path.exists()
BackupNeeded(backup) == backup.kind = "absent"

\* lines 923-924
CheckBackup(p) ==
    /\ pc[p] = "backup"
    /\ pc' = [pc EXCEPT ![p] = IF BackupNeeded(backup_file)
                               THEN "write_backup" ELSE "write_manifest"]
    /\ UNCHANGED <<dry_run, autocomplete_enabled, original_tool_data, repo_metrics,
                   tool_data, results, at_begin, trace, prev_run>>
    /\ UNCHANGED <<fileVars, assetVars, nameVars, urlVars, scoreVars, verifyVars>>

\* a backup write whose failure does not skip the manifest write
AfterBackup_OwnHandler(outcome) == "write_manifest"

\* where the run goes on after lines 925-926: to the manifest write, or by
\* the handler at lines 934-935 past it
AfterBackup(outcome) == IF outcome = "written" THEN "write_manifest" ELSE "schema"

\* a backup made by copying the manifest file as it is on disk
DumpedToBackup_FileCopy(original, on_disk) == on_disk

\* line 926: json.dump(original_tool_data, f, ...), the document the run
\* loaded, whatever the manifest file holds by now
DumpedToBackup(original, on_disk) == Json(original)

\* lines 925-926, and 934-935 when the write raises
WriteBackup(p) ==
    /\ pc[p] = "write_backup"
    /\ \E outcome \in WriteOutcomes :
          /\ pc' = [pc EXCEPT ![p] = AfterBackup(outcome)]
          /\ CASE outcome = "written" ->
                   /\ backup_file' = DumpedToBackup(original_tool_data[p], manifest_file)
                   /\ trace' = [trace EXCEPT ![p].backup_opened = TRUE]
                   /\ UNCHANGED results
               [] outcome = "dump_failed" ->
                   /\ backup_file' = Partial
                   /\ trace' = [trace EXCEPT ![p].backup_opened = TRUE,
                                             ![p].failed = "backup"]
                   /\ results' = [results EXCEPT ![p] = SaveFailed(@)]
               [] outcome = "open_failed" ->
                   /\ trace' = [trace EXCEPT ![p].failed = "backup"]
                   /\ results' = [results EXCEPT ![p] = SaveFailed(@)]
                   /\ UNCHANGED backup_file
    /\ UNCHANGED <<manifest_file, overwritten>>
    /\ UNCHANGED <<dry_run, autocomplete_enabled, original_tool_data, repo_metrics,
                   tool_data, at_begin, prev_run>>
    /\ UNCHANGED <<assetVars, nameVars, urlVars, scoreVars, verifyVars>>

\* a dump of original_tool_data in place of tool_data
DumpedToManifest_Original(original, completed) == original

\* line 931: the document json.dump writes to tool_path
DumpedToManifest(original, completed) == completed

\* lines 929-932, and 934-935 when the write raises
WriteManifest(p) ==
    /\ pc[p] = "write_manifest"
    /\ \E outcome \in WriteOutcomes :
          CASE outcome = "written" ->
                /\ manifest_file' =
                      Json(DumpedToManifest(original_tool_data[p], tool_data[p]))
                /\ overwritten' = TRUE
                /\ trace' = [trace EXCEPT ![p].manifest_opened = TRUE]
                /\ results' = [results EXCEPT ![p] = AddWarnings(@,
                        <<"[AUTOCOMPLETE] Legacy manifest auto-completed and saved">>)]
            [] outcome = "dump_failed" ->
                /\ manifest_file' = Partial
                /\ overwritten' = TRUE
                /\ trace' = [trace EXCEPT ![p].manifest_opened = TRUE,
                                          ![p].failed = "manifest"]
                /\ results' = [results EXCEPT ![p] = SaveFailed(@)]
            [] outcome = "open_failed" ->
                /\ trace' = [trace EXCEPT ![p].failed = "manifest"]
                /\ results' = [results EXCEPT ![p] = SaveFailed(@)]
                /\ UNCHANGED <<manifest_file, overwritten>>
    /\ pc' = [pc EXCEPT ![p] = "schema"]
    /\ UNCHANGED backup_file
    /\ UNCHANGED <<dry_run, autocomplete_enabled, original_tool_data, repo_metrics,
                   tool_data, at_begin, prev_run>>
    /\ UNCHANGED <<assetVars, nameVars, urlVars, scoreVars, verifyVars>>

\* a rejection that puts the manifest file back as the run found it
AfterRejection_RolledBack(manifest, found) == found

\* lines 938-940: the rejection returns the results; the file stays as it is
AfterRejection(manifest, found) == manifest

\* lines 937-943: the schema validator is an external collaborator that
\* accepts or rejects the document in tool_data
ValidateSchema(p) ==
    /\ pc[p] = "schema"
    /\ \E accepted \in BOOLEAN :
          IF accepted
          THEN /\ results' = [results EXCEPT ![p] = AddWarnings(@,
                      <<validate_github_repository(
                            original_tool_data[p]["repository"],
                            [status |-> 200, data |-> repo_metrics[p]]).status>>)]
               /\ pc' = [pc EXCEPT ![p] = "assess"]
               /\ UNCHANGED manifest_file
          ELSE /\ results' = [results EXCEPT
                                ![p] = AddErrors(@, <<"Schema validation failed">>)]
               /\ pc' = [pc EXCEPT ![p] = "return"]
               /\ manifest_file' = AfterRejection(manifest_file, at_begin[p].manifest)
    /\ UNCHANGED <<backup_file, overwritten>>
    /\ UNCHANGED <<dry_run, autocomplete_enabled, original_tool_data, repo_metrics,
                   tool_data, at_begin, trace, prev_run>>
    /\ UNCHANGED <<assetVars, nameVars, urlVars, scoreVars, verifyVars>>

\* lines 945-984: installation metadata, pattern verification, documentation
\* URL, content safety, score, review threshold, valid flag
Assess(p) ==
    /\ pc[p] = "assess"
    /\ \E info \in (IF "platforms" \in DOMAIN Get(tool_data[p], "installation", <<>>)
                    THEN ReleaseInfos ELSE {NoReleaseInfo}),
          pattern_verification \in (IF DOMAIN Get(tool_data[p], "installation", <<>>) # {}
                                    THEN PatternVerifications ELSE {<<>>}),
          doc_valid \in (IF Get(tool_data[p], "documentation", "") # ""
                         THEN BOOLEAN ELSE {TRUE}) :
          LET data == tool_data[p]
              installation_errors ==
                  validate_installation_metadata(data, repo_metrics[p], info)
              sorted == AddWarnings(
                  AddErrors(results[p],
                            SelectSeq(installation_errors, IsError)),
                  SelectSeq(installation_errors, LAMBDA m : ~IsError(m)))
              score == calculate_quality_score(data, repo_metrics[p])
              verified ==
                  IF DOMAIN Get(data, "installation", <<>>) # {}
                  THEN FilePatternVerification(sorted, pattern_verification)
                  ELSE sorted
              advised == AddWarnings(verified,
                  (IF Get(data, "documentation", "") # ""
                      THEN IF doc_valid THEN <<"Documentation: [OK] URL accessible">>
                           ELSE <<"Documentation: [ERROR] URL not accessible">>
                      ELSE <<>>)
                  \o validate_content_safety(data)
                  \o (IF score < validation_rules.review_required_score
                      THEN <<"[WARNING] Score below review threshold">> ELSE <<>>))
          IN  IF HasError(installation_errors)
              THEN results' = [results EXCEPT ![p] = sorted]
              ELSE results' = [results EXCEPT ![p] =
                      [advised EXCEPT !.score = score,
                                      !.valid = (Len(advised.errors) = 0)]]
    /\ pc' = [pc EXCEPT ![p] = "return"]
    /\ UNCHANGED <<dry_run, autocomplete_enabled, original_tool_data, repo_metrics,
                   tool_data, at_begin, trace, prev_run>>
    /\ UNCHANGED <<fileVars, assetVars, nameVars, urlVars, scoreVars, verifyVars>>

\* line 989: the run returns its results; its locals are gone
Return(p) ==
    /\ pc[p] = "return"
    /\ prev_run' = [completing_on_legacy |->
                        /\ autocomplete_enabled[p] /\ ~dry_run[p]
                        /\ at_begin[p].manifest.kind = "json"
                        /\ _is_legacy_format(at_begin[p].manifest.doc),
                    rewrote |-> trace[p].manifest_opened]
    /\ pc' = [pc EXCEPT ![p] = "idle"]
    /\ dry_run' = [dry_run EXCEPT ![p] = FALSE]
    /\ autocomplete_enabled' = [autocomplete_enabled EXCEPT ![p] = TRUE]
    /\ original_tool_data' = [original_tool_data EXCEPT ![p] = <<>>]
    /\ repo_metrics' = [repo_metrics EXCEPT ![p] = <<>>]
    /\ tool_data' = [tool_data EXCEPT ![p] = <<>>]
    /\ results' = [results EXCEPT ![p] = NoResults]
    /\ at_begin' = [at_begin EXCEPT ![p] = [manifest |-> Absent, backup |-> Absent]]
    /\ trace' = [trace EXCEPT ![p] = NoTrace]
    /\ UNCHANGED <<fileVars, assetVars, nameVars, urlVars, scoreVars, verifyVars>>

Next ==
    \E p \in Procs :
        \/ Begin(p)
        \/ ValidateRepository(p)
        \/ AutoComplete(p)
        \/ CheckBackup(p)
        \/ WriteBackup(p)
        \/ WriteManifest(p)
        \/ ValidateSchema(p)
        \/ Assess(p)
        \/ Return(p)

Spec == Init /\ [][Next]_vars

(***************************************************************************)
(* ScoreSpec: a manifest and its metrics go through                        *)
(* calculate_quality_score, repository metrics and issues go through       *)
(* _calculate_health_score                                                 *)
(***************************************************************************)
StarValues == {0, 9, 10, 49, 50, 59, 60, 61, 99, 100}

\* days since the last commit or push; -1 empty, -2 not a date
DayValues == {-2, -1, 10, 60, 120, 200, 400}

ScoreDocs ==
    {[k \in K \cup {"name"} |-> AuthorValue(k)] :
        K \in {{}, {"license"}, {"description", "documentation", "tags"},
               {"description", "documentation", "license", "tags", "maintainer"}}}

EvenWeights(w) ==
    [stars |-> w, forks |-> w, recent_activity |-> w, documentation |-> w,
     license |-> w, community |-> w]

\* weights in hundredths: none, a share each, the defaults, one and a half
WeightSets ==
    {EvenWeights(0),
     [stars |-> 30, forks |-> 20, recent_activity |-> 20, documentation |-> 15,
      license |-> 10, community |-> 5],
     validation_rules.scoring_weights,
     EvenWeights(150)}

\* lines 85-90 of verify-tools.py append the critical issues in this order;
\* lines 140-143 may append a note about the additional metrics
IssueLists ==
    {(IF a THEN <<"Repository is archived">> ELSE <<>>)
     \o (IF d THEN <<"Repository is disabled">> ELSE <<>>)
     \o (IF v THEN <<"Repository is private">> ELSE <<>>)
     \o (IF t THEN <<"Timeout getting additional metrics">> ELSE <<>>) :
        a \in BOOLEAN, d \in BOOLEAN, v \in BOOLEAN, t \in BOOLEAN}

HealthMetricsPool ==
    [pushed_at : DayValues, has_readme : BOOLEAN, has_ci : BOOLEAN,
     stars : {0, 10, 50, 100}, contributors : {0, 2, 5, 10},
     recent_commits : {0, 1, 5, 10}]

QualityInputs ==
    /\ score_data \in ScoreDocs
    /\ score_metrics \in [stars : StarValues, forks : 0..MaxForks,
                           last_commit : DayValues]
    /\ score_weights \in WeightSets
    /\ health_metrics = NoHealthMetrics
    /\ health_issues = <<>>

HealthInputs ==
    /\ score_data = <<>>
    /\ score_metrics = NoQualityMetrics
    /\ score_weights = validation_rules.scoring_weights
    /\ health_metrics \in HealthMetricsPool
    /\ health_issues \in IssueLists

ScoreInit ==
    /\ QualityInputs \/ HealthInputs
    /\ quality_score = 0
    /\ health_score = 0
    /\ score_stage = "input"
    /\ AssetIdle
    /\ NameIdle
    /\ UrlIdle
    /\ manifest_file = Absent
    /\ backup_file = Absent
    /\ overwritten = FALSE
    /\ RunIdle
    /\ VerifyIdle

CalculateQualityScore ==
    /\ score_stage = "input"
    /\ quality_score' = QualityScore(score_data, score_metrics, score_weights)
    /\ score_stage' = "quality"
    /\ UNCHANGED <<score_data, score_metrics, score_weights, health_metrics,
                   health_issues, health_score>>
    /\ UNCHANGED <<assetVars, nameVars, urlVars, fileVars, runVars, verifyVars>>

CalculateHealthScore ==
    /\ score_stage = "quality"
    /\ health_score' = _calculate_health_score(health_metrics, health_issues)
    /\ score_stage' = "health"
    /\ UNCHANGED <<score_data, score_metrics, score_weights, health_metrics,
                   health_issues, quality_score>>
    /\ UNCHANGED <<assetVars, nameVars, urlVars, fileVars, runVars, verifyVars>>

ScoreNext == CalculateQualityScore \/ CalculateHealthScore

ScoreSpec == ScoreInit /\ [][ScoreNext]_vars

(***************************************************************************)
(* RaceSpec: two processes run validate_single_tool on one manifest file,  *)
(* their steps interleaved in any order.  A load, an existence test and a  *)
(* write are one step each; a load that falls between another process's    *)
(* open(tool_path, 'w') and the end of its dump reads a truncated file.     *)
(***************************************************************************)
RaceProcs == {1, 2}

RaceDocs ==
    {("repository" :> "https://github.com/obsproject/obs-studio")
        @@ [k \in K \cup {"name"} |-> AuthorValue(k)] : K \in {{}, {"slug"}}}

RaceInit ==
    /\ manifest_file \in {Json(d) : d \in RaceDocs}
    /\ backup_file \in {Absent, StaleBackup}
    /\ overwritten = FALSE
    /\ pc = [p \in RaceProcs |-> "idle"]
    /\ dry_run = [p \in RaceProcs |-> FALSE]
    /\ autocomplete_enabled = [p \in RaceProcs |-> TRUE]
    /\ original_tool_data = [p \in RaceProcs |-> <<>>]
    /\ repo_metrics = [p \in RaceProcs |-> <<>>]
    /\ tool_data = [p \in RaceProcs |-> <<>>]
    /\ results = [p \in RaceProcs |-> NoResults]
    /\ at_begin = [p \in RaceProcs |-> [manifest |-> Absent, backup |-> Absent]]
    /\ trace = [p \in RaceProcs |-> NoTrace]
    /\ prev_run = NoRun
    /\ AssetIdle
    /\ NameIdle
    /\ UrlIdle
    /\ ScoreIdle
    /\ VerifyIdle

\* line 887 while another process is between its open(tool_path, 'w') and
\* the end of its dump: json.load raises on the truncated file
BeginTorn(p) ==
    /\ pc[p] = "idle"
    /\ \E q \in RaceProcs \ {p} : pc[q] = "write_manifest"
    /\ \E no_autocomplete, dry \in BOOLEAN :
          /\ dry_run' = [dry_run EXCEPT ![p] = dry]
          /\ autocomplete_enabled' =
                [autocomplete_enabled EXCEPT ![p] = ~no_autocomplete /\ ~dry]
    /\ at_begin' = [at_begin EXCEPT ![p] = [manifest |-> Partial,
                                            backup |-> backup_file]]
    /\ trace' = [trace EXCEPT ![p] = NoTrace]
    /\ results' = [results EXCEPT
                     ![p] = AddErrors(NoResults, <<"[ERROR] Validation error">>)]
    /\ pc' = [pc EXCEPT ![p] = "return"]
    /\ UNCHANGED <<original_tool_data, repo_metrics, tool_data, prev_run>>
    /\ UNCHANGED <<fileVars, assetVars, nameVars, urlVars, scoreVars, verifyVars>>

\* the remote side is the same for every run of the race: the repository
\* answers with RichMetrics, the latest release is ScenarioA, the pattern
\* verification and the documentation URL succeed
RaceRepository(p) == results[p].errors = <<>> /\ repo_metrics[p].stars = RichMetrics.stars

RaceRelease(p) ==
    trace[p].completed => DOMAIN trace[p].release_info.platform_assets # {}

RaceAssessment(p) ==
    ~Recorded(results[p].warnings,
              {"[INFO] Cannot access latest release for verification",
               "[WARNING] pattern found no matches in release assets",
               "[ERROR] Pattern verification failed",
               "Documentation: [ERROR] URL not accessible"})

RaceNext ==
    \E p \in RaceProcs :
        \/ Begin(p)
        \/ BeginTorn(p)
        \/ ValidateRepository(p) /\ RaceRepository(p)'
        \/ AutoComplete(p) /\ RaceRelease(p)'
        \/ CheckBackup(p)
        \/ WriteBackup(p)
        \/ WriteManifest(p)
        \/ ValidateSchema(p)
        \/ Assess(p) /\ RaceAssessment(p)'
        \/ Return(p)

RaceSpec == RaceInit /\ [][RaceNext]_vars

(***************************************************************************)
(* verify-tools.py: verify_repository_health, verify_documentation,        *)
(* verify_single_tool, update_tool_verification.  A repository record      *)
(* keeps the metrics the health score and the update read; pushed_at is    *)
(* the number of days since the last push.                                 *)
(***************************************************************************)
\* s.strip("/")
RECURSIVE StripSlashes(_)
StripSlashes(s) ==
    IF s = "" THEN s
    ELSE IF Char(s, 1) = "/" THEN StripSlashes(SubSeq(s, 2, Len(s)))
    ELSE IF Char(s, Len(s)) = "/" THEN StripSlashes(SubSeq(s, 1, Len(s) - 1))
    ELSE s

\* what the repository API and the additional requests answered
RepoAnswer(kind, data, archived, additional) ==
    [kind |-> kind, data |-> data, archived |-> archived, additional |-> additional]

Inaccessible(issue) ==
    [accessible |-> FALSE, metrics |-> <<>>, health_score |-> 0, issues |-> <<issue>>]

\* lines 29-158; the URLs of the model hold the prefix at their start only
verify_repository_health(repo_url, answer) ==
    IF ~StartsWith(repo_url, GithubPrefix) THEN Inaccessible("Not a GitHub repository")
    ELSE IF Len(SplitSlash(StripSlashes(
                    SubSeq(repo_url, Len(GithubPrefix) + 1, Len(repo_url))))) # 2
    THEN Inaccessible("Invalid GitHub URL format")
    ELSE IF answer.kind = "timeout" THEN Inaccessible("Repository request timeout")
    ELSE IF answer.kind = "connection" THEN Inaccessible("Connection error")
    ELSE IF answer.kind = "http" THEN Inaccessible("Repository API error: HTTP 404")
    ELSE IF answer.kind = "broken"
    THEN \* an exception after line 61, before the metrics are stored
         [accessible |-> TRUE, metrics |-> <<>>, health_score |-> 0,
          issues |-> <<"Verification error">>]
    ELSE LET metrics ==
                 IF answer.additional = "ok" THEN answer.data
                 ELSE [answer.data EXCEPT !.has_readme = FALSE, !.has_ci = FALSE,
                                          !.contributors = 0, !.recent_commits = 0]
             issues ==
                 (IF answer.archived THEN <<"Repository is archived">> ELSE <<>>)
                 \o (IF answer.additional = "ok" THEN <<>>
                     ELSE <<"Timeout getting additional metrics">>)
         IN  [accessible |-> TRUE, metrics |-> metrics,
              health_score |-> _calculate_health_score(metrics, issues),
              issues |-> issues]

\* lines 229-267, for a URL that is not empty
verify_documentation(doc_url, answer) ==
    IF answer = "ok" THEN [accessible |-> TRUE, issues |-> <<>>]
    ELSE IF answer = "http" THEN [accessible |-> FALSE, issues |-> <<"HTTP 404">>]
    ELSE [accessible |-> FALSE, issues |-> <<"Documentation timeout">>]

\* a status that never is "failed" once the file was read
DetermineStatus_ReviewWhenUnreachable(accessible, overall_score) ==
    IF overall_score >= 80 THEN "verified"
    ELSE IF overall_score >= 60 THEN "conditional"
    ELSE "needs_review"

\* lines 308-316
DetermineStatus(accessible, overall_score) ==
    IF accessible
    THEN IF overall_score >= 80 THEN "verified"
         ELSE IF overall_score >= 60 THEN "conditional"
         ELSE "needs_review"
    ELSE "failed"

\* lines 271-279
UnknownResult(tool_path) ==
    [file |-> tool_path, status |-> "unknown", repository |-> <<>>,
     documentation |-> <<>>, overall_score |-> 0, verification_date |-> "now",
     issues |-> <<>>]

\* lines 269-328
verify_single_tool(tool_path, file, repo_answer, doc_answer) ==
    IF file.kind = "absent"
    THEN [UnknownResult(tool_path) EXCEPT !.issues = <<"Tool file not found">>,
                                          !.status = "failed"]
    ELSE IF file.kind = "partial"
    THEN [UnknownResult(tool_path) EXCEPT !.issues = <<"Invalid JSON">>,
                                          !.status = "failed"]
    ELSE LET repo_url == Get(file.doc, "repository", "")
             doc_url == Get(file.doc, "documentation", "")
             repository == IF repo_url # ""
                           THEN verify_repository_health(repo_url, repo_answer)
                           ELSE <<>>
             documentation == IF doc_url # ""
                              THEN verify_documentation(doc_url, doc_answer)
                              ELSE <<>>
             repo_score == Get(repository, "health_score", 0)
             doc_accessible == IF doc_url # ""
                               THEN Get(documentation, "accessible", FALSE)
                               ELSE TRUE
             doc_bonus == IF doc_accessible THEN 10 ELSE -5
             overall_score == Min(100, Max(0, repo_score + doc_bonus))
         IN  [file |-> tool_path,
              status |-> DetermineStatus(Get(repository, "accessible", FALSE),
                                         overall_score),
              repository |-> repository,
              documentation |-> documentation,
              overall_score |-> overall_score,
              verification_date |-> "now",
              issues |-> IF repo_url # "" THEN <<>>
                         ELSE <<"No repository URL provided">>]

\* lines 361-366: the record that stands for a task that raised
FailureRecord(path) ==
    [file |-> path, status |-> "failed", issues |-> <<"exception">>,
     overall_score |-> 0]

\* a collection that drops the tasks that raised
Collected_RaisedDropped(collected, path, outcome) ==
    IF outcome.raised THEN collected ELSE Append(collected, outcome.result)

\* lines 342-366: one iteration of the as_completed loop
Collected(collected, path, outcome) ==
    Append(collected, IF outcome.raised THEN FailureRecord(path) ELSE outcome.result)

\* lines 377-392: the document with its verification and metrics replaced
WithVerification(data, verification_result) ==
    LET verified ==
            ("verification" :> [status |-> verification_result.status,
                                date |-> verification_result.verification_date,
                                method |-> "automated",
                                score |-> verification_result.overall_score]) @@ data
        metrics == Get(verification_result.repository, "metrics", <<>>)
    IN  IF metrics # <<>>
        THEN ("metrics" :> [stars |-> metrics.stars, forks |-> metrics.forks,
                            last_commit |-> metrics.pushed_at]) @@ verified
        ELSE verified

\* lines 370-401: the value returned and the file afterwards
update_tool_verification(file, verification_result, outcome) ==
    IF \/ file.kind # "json"
       \/ ~({"status", "verification_date", "overall_score", "repository"}
               \subseteq DOMAIN verification_result)
       \/ outcome = "open_failed"
    THEN [returned |-> FALSE, file |-> file]
    ELSE IF outcome = "dump_failed"
    THEN [returned |-> FALSE, file |-> Partial]
    ELSE [returned |-> TRUE,
          file |-> Json(WithVerification(file.doc, verification_result))]

(***************************************************************************)
(* VerifySpec: main of verify-tools.py on two manifest paths, with         *)
(* --single or over the directory, with or without --update.  The tasks of *)
(* verify_tools_batch are taken by at most args.workers threads in the     *)
(* order of submission and finish in any order.                            *)
(***************************************************************************)
RepoData(pushed_at, stars, contributors) ==
    [stars |-> stars, forks |-> 4, pushed_at |-> pushed_at, has_readme |-> TRUE,
     has_ci |-> FALSE, contributors |-> contributors, recent_commits |-> 0]

RepoAnswers ==
    {RepoAnswer(kind, RepoData(10, 0, 0), FALSE, "ok") :
        kind \in {"timeout", "connection", "http", "broken"}}
    \cup {RepoAnswer("ok", RepoData(pushed_at, bonus[1], bonus[2]), TRUE, "ok") :
            pushed_at \in {10, 400}, bonus \in {<<10, 0>>, <<0, 5>>}}
    \cup {RepoAnswer("ok", RepoData(10, 0, 5), FALSE, additional) :
            additional \in {"ok", "timeout"}}

DocAnswers == {"ok", "http"}

VerifiedBefore ==
    [name |-> "Tool", repository |-> "https://github.com/own/rep",
     tags |-> <<"capture">>,
     verification |-> [status |-> "needs_review", date |-> "before",
                       method |-> "manual", score |-> 40],
     metrics |-> [stars |-> 1, forks |-> 0, last_commit |-> 900]]

FilesOfA ==
    {Absent, Partial,
     Json([name |-> "Tool"]),
     Json([name |-> "Tool", repository |-> "https://github.com/own/rep",
           documentation |-> "https://own.example/docs"])}

FilesOfB ==
    {Partial, Json(VerifiedBefore),
     Json([name |-> "Tool", repository |-> "https://gitlab.com/own/rep"])}

\* line 492: tools_dir.rglob("*.json") lists the files that exist
RECURSIVE Existing(_, _)
Existing(paths, files) ==
    IF paths = <<>> THEN <<>>
    ELSE (IF files[Head(paths)].kind = "absent" THEN <<>> ELSE <<Head(paths)>>)
         \o Existing(Tail(paths), files)

VerifyInit ==
    /\ tool_files \in {[path \in Paths |-> IF path = "a.json" THEN a ELSE b] :
                          a \in FilesOfA, b \in FilesOfB}
    /\ files_at_start = tool_files
    /\ args \in [single : {"", "a.json"}, update : BOOLEAN, workers : 1..MaxWorkers]
    /\ futures = [path \in Paths |-> "none"]
    /\ outcomes = [path \in Paths |-> NoOutcome]
    /\ batch_results = <<>>
    /\ update_returns = <<>>
    /\ main_pc = "start"
    /\ exit_code = -1
    /\ AssetIdle
    /\ NameIdle
    /\ UrlIdle
    /\ ScoreIdle
    /\ manifest_file = Absent
    /\ backup_file = Absent
    /\ overwritten = FALSE
    /\ RunIdle

AfterVerification == IF args.update THEN "update" ELSE "done"

\* lines 444-448: --single
VerifySingle ==
    /\ main_pc = "start"
    /\ args.single # ""
    /\ \E repo_answer \in RepoAnswers, doc_answer \in DocAnswers :
          batch_results' = <<verify_single_tool(args.single, tool_files[args.single],
                                                 repo_answer, doc_answer)>>
    /\ main_pc' = AfterVerification
    /\ UNCHANGED <<tool_files, args, futures, outcomes, update_returns, exit_code,
                   files_at_start>>
    /\ UNCHANGED <<assetVars, nameVars, urlVars, scoreVars, fileVars, runVars>>

\* lines 492-500 and 334-340: the files are listed and every one is submitted
SubmitAll ==
    /\ main_pc = "start"
    /\ args.single = ""
    /\ LET tool_paths == Existing(ToolPaths, tool_files)
       IN  IF tool_paths = <<>>
           THEN /\ main_pc' = "done"
                /\ UNCHANGED futures
           ELSE /\ main_pc' = "collect"
                /\ futures' = [path \in Paths |->
                                  IF tool_files[path].kind = "absent"
                                  THEN "none" ELSE "queued"]
    /\ UNCHANGED <<tool_files, args, outcomes, batch_results, update_returns,
                   exit_code, files_at_start>>
    /\ UNCHANGED <<assetVars, nameVars, urlVars, scoreVars, fileVars, runVars>>

Running == {path \in Paths : futures[path] = "running"}

\* a free worker thread takes the task that has waited longest
StartTask(path) ==
    /\ futures[path] = "queued"
    /\ Cardinality(Running) < args.workers
    /\ \A i, j \in 1..Len(ToolPaths) :
          (ToolPaths[j] = path /\ i < j) => futures[ToolPaths[i]] # "queued"
    /\ futures' = [futures EXCEPT ![path] = "running"]
    /\ UNCHANGED <<tool_files, args, outcomes, batch_results, update_returns,
                   main_pc, exit_code, files_at_start>>
    /\ UNCHANGED <<assetVars, nameVars, urlVars, scoreVars, fileVars, runVars>>

\* the task's verify_single_tool returns, or an exception leaves it
FinishTask(path) ==
    /\ futures[path] = "running"
    /\ \/ \E repo_answer \in RepoAnswers, doc_answer \in DocAnswers :
             outcomes' = [outcomes EXCEPT ![path] =
                 [raised |-> FALSE,
                  result |-> verify_single_tool(path, tool_files[path],
                                                repo_answer, doc_answer)]]
       \/ outcomes' = [outcomes EXCEPT ![path] = [raised |-> TRUE, result |-> <<>>]]
    /\ futures' = [futures EXCEPT ![path] = "finished"]
    /\ UNCHANGED <<tool_files, args, batch_results, update_returns, main_pc,
                   exit_code, files_at_start>>
    /\ UNCHANGED <<assetVars, nameVars, urlVars, scoreVars, fileVars, runVars>>

\* lines 342-366: as_completed yields a finished future
Collect(path) ==
    /\ main_pc = "collect"
    /\ futures[path] = "finished"
    /\ futures' = [futures EXCEPT ![path] = "yielded"]
    /\ batch_results' = Collected(batch_results, path, outcomes[path])
    /\ UNCHANGED <<tool_files, args, outcomes, update_returns, main_pc, exit_code,
                   files_at_start>>
    /\ UNCHANGED <<assetVars, nameVars, urlVars, scoreVars, fileVars, runVars>>

\* line 368 and lines 500-503: every future was yielded
ReturnBatch ==
    /\ main_pc = "collect"
    /\ \A path \in Paths : futures[path] \in {"none", "yielded"}
    /\ main_pc' = AfterVerification
    /\ UNCHANGED <<tool_files, args, futures, outcomes, batch_results, update_returns,
                   exit_code, files_at_start>>
    /\ UNCHANGED <<assetVars, nameVars, urlVars, scoreVars, fileVars, runVars>>

\* lines 481-485 and 506-512: the next result is written to its file
UpdateNext ==
    /\ main_pc = "update"
    /\ IF Len(update_returns) = Len(batch_results)
       THEN /\ main_pc' = "done"
            /\ UNCHANGED <<tool_files, update_returns>>
       ELSE \E outcome \in WriteOutcomes :
            LET result == batch_results[Len(update_returns) + 1]
                updated == update_tool_verification(tool_files[result.file],
                                                    result, outcome)
            IN  /\ tool_files' = [tool_files EXCEPT ![result.file] = updated.file]
                /\ update_returns' = Append(update_returns, updated.returned)
                /\ UNCHANGED main_pc
    /\ UNCHANGED <<args, futures, outcomes, batch_results, exit_code, files_at_start>>
    /\ UNCHANGED <<assetVars, nameVars, urlVars, scoreVars, fileVars, runVars>>

\* main returns: the interpreter exits with code 0
Exit ==
    /\ main_pc = "done"
    /\ main_pc' = "exited"
    /\ exit_code' = 0
    /\ UNCHANGED <<tool_files, args, futures, outcomes, batch_results, update_returns,
                   files_at_start>>
    /\ UNCHANGED <<assetVars, nameVars, urlVars, scoreVars, fileVars, runVars>>

\* lines 516-518: KeyboardInterrupt while main runs
Interrupt ==
    /\ main_pc \in {"start", "collect", "update"}
    /\ main_pc' = "interrupted"
    /\ exit_code' = 1
    /\ UNCHANGED <<tool_files, args, futures, outcomes, batch_results, update_returns,
                   files_at_start>>
    /\ UNCHANGED <<assetVars, nameVars, urlVars, scoreVars, fileVars, runVars>>

VerifyNext ==
    \/ VerifySingle
    \/ SubmitAll
    \/ \E path \in Paths : StartTask(path)
    \/ \E path \in Paths : FinishTask(path)
    \/ \E path \in Paths : Collect(path)
    \/ ReturnBatch
    \/ UpdateNext
    \/ Exit
    \/ Interrupt

VerifySpec == VerifyInit /\ [][VerifyNext]_vars

(***************************************************************************)
(* Properties of the asset resolver and the name synthesizer               *)
(***************************************************************************)
DebugMarkers == {"debug", "pdb", "symbols", "dev", "source", "src"}

HasDebugMarker(n) == \E m \in DebugMarkers : Contains(lower(n), m)

\* C8: no asset whose lower-cased name contains one of the markers debug,
\* pdb, symbols, dev, source, src is selected for any platform, also when it
\* is the only asset that matches the platform's rules.
C8_NoMarkedAssetSelected ==
    stage # "input" =>
        \A p \in DOMAIN release_info.platform_assets :
            ~HasDebugMarker(release_info.platform_assets[p].name)

\* the only asset is an .exe carrying a marker, and windows stays unbound
C8_Witness ==
    /\ stage = "resolved"
    /\ response = Release(<<Asset("tool-dev.exe")>>)
    /\ "windows" \notin DOMAIN release_info.platform_assets

\* C9: scenario A binds windows to the .zip, linux to the .deb and macos to
\* the .dmg, and the installation config is a platforms map whose keys are
\* exactly windows, linux, macos.
C9_ScenarioA ==
    (stage = "configured" /\ response = Release(ScenarioA)) =>
        /\ DOMAIN release_info.platform_assets = {"windows", "linux", "macos"}
        /\ release_info.platform_assets["windows"].name = "OBS-Studio-31.1.2-Windows-x64.zip"
        /\ release_info.platform_assets["linux"].name = "obs-studio_31.1.2-1_amd64.deb"
        /\ release_info.platform_assets["macos"].name = "obs-studio-31.1.2-macos.dmg"
        /\ DOMAIN installation_config = {"platforms"}
        /\ DOMAIN installation_config["platforms"] = {"windows", "linux", "macos"}

C9_Witness ==
    /\ stage = "configured"
    /\ response = Release(ScenarioA)
    /\ "platforms" \in DOMAIN installation_config

\* C10: 7z2501-arm.zip and 7z2502-x64.zip, which differ only in version
\* digits and the trailing variant token, both yield the pattern 7z.zip.
C10_SevenZipPattern ==
    (name_done /\ original_name \in {"7z2501-arm.zip", "7z2502-x64.zip"}) =>
        executable = "7z.zip"

(***************************************************************************)
(* Properties of auto-completion and of the validate_single_tool run       *)
(***************************************************************************)
\* the run has passed lines 899-918
PastCompletion(p) ==
    \/ pc[p] \in {"backup", "write_backup", "write_manifest", "schema", "assess"}
    \/ pc[p] = "return" /\ repo_metrics[p] # <<>>

\* the document lines 905/917 compute from what the run loaded and fetched
CompletedDocument(p) ==
    autocomplete_legacy_manifest(original_tool_data[p], repo_metrics[p],
                                 trace[p].release_info)

\* the fields whose presence makes a manifest modern
ModernKeys == {"installation", "uninstallation", "compatibility", "slug"}

HasModernKey(d) == DOMAIN d \cap ModernKeys # {}

FilesAsAtBegin(p) ==
    /\ manifest_file = at_begin[p].manifest
    /\ backup_file = at_begin[p].backup

\* C1: the document returned by autocomplete_legacy_manifest contains every
\* key of the manifest it was given, with the value the manifest has for it.
C1_CompletionKeepsAuthorFields ==
    \A p \in Procs :
        (PastCompletion(p) /\ trace[p].completed) =>
            \A k \in DOMAIN original_tool_data[p] :
                /\ k \in DOMAIN tool_data[p]
                /\ tool_data[p][k] = original_tool_data[p][k]

\* a legacy manifest with an author's license was completed against a
\* repository that reports a license of its own
C1_Witness ==
    \E p \in Procs :
        /\ pc[p] = "schema"
        /\ trace[p].completed
        /\ "license" \in DOMAIN original_tool_data[p]
        /\ repo_metrics[p].license # ""
        /\ "slug" \in DOMAIN tool_data[p]

C3_BackupNeverRewritten ==
    [][backup_file.kind # "absent" => backup_file' = backup_file]_vars

\* a completing run found the backup in place and went on to write the manifest
C3_Witness ==
    \E p \in Procs :
        /\ pc[p] = "schema"
        /\ trace[p].manifest_opened
        /\ at_begin[p].backup.kind # "absent"
        /\ backup_file = at_begin[p].backup

\* C4: whenever a completion has overwritten the manifest file, a backup
\* file exists.
C4_BackupBeforeOverwrite == overwritten => backup_file.kind # "absent"

\* the run that overwrote the manifest began without a backup
C4_Witness ==
    \E p \in Procs :
        /\ trace[p].manifest_opened
        /\ at_begin[p].backup.kind = "absent"
        /\ backup_file = Json(original_tool_data[p])

\* C5: when writing the backup or the completed manifest fails, the failure
\* is a warning and not an error, the manifest file is as it was before the
\* run, and the completed document is the one validated and scored.
C5_WriteFailureLeavesManifest ==
    \A p \in Procs :
        (PastCompletion(p) /\ trace[p].failed # "none") =>
            /\ \E i \in 1..Len(results[p].warnings) :
                  results[p].warnings[i] = "[WARNING] Could not save auto-completed manifest"
            /\ \A i \in 1..Len(results[p].errors) :
                  results[p].errors[i] # "[WARNING] Could not save auto-completed manifest"
            /\ manifest_file = at_begin[p].manifest
            /\ tool_data[p] = CompletedDocument(p)
            /\ (pc[p] = "return" /\ results[p].valid) =>
                  results[p].score = calculate_quality_score(CompletedDocument(p),
                                                             repo_metrics[p])

\* C6: a dry run on a legacy manifest validates the document a saving run
\* would compute from the same inputs and answers, and leaves the manifest
\* file and the backup file as they were.
C6_DryRunWritesNothing ==
    \A p \in Procs :
        (dry_run[p] /\ pc[p] # "idle") =>
            /\ FilesAsAtBegin(p)
            /\ ~trace[p].backup_opened /\ ~trace[p].manifest_opened
            /\ (PastCompletion(p) /\ ~HasModernKey(original_tool_data[p])) =>
                  (trace[p].completed /\ tool_data[p] = CompletedDocument(p))

\* a dry run completed a legacy manifest in memory and found it valid
C6_Witness ==
    \E p \in Procs :
        /\ dry_run[p]
        /\ pc[p] = "return"
        /\ results[p].valid
        /\ results[p].would_autocomplete
        /\ tool_data[p] # original_tool_data[p]

\* the run has loaded a manifest that has one of the modern fields
LoadedModern(p) ==
    /\ pc[p] \notin {"idle"}
    /\ at_begin[p].manifest.kind = "json"
    /\ HasModernKey(at_begin[p].manifest.doc)

\* C7: a manifest with one of installation, uninstallation, compatibility,
\* slug is returned unchanged by autocomplete_legacy_manifest whatever the
\* release data, and a run on it writes no file and validates it as it is.
C7_ModernManifestUntouched ==
    \A p \in Procs :
        LoadedModern(p) =>
            /\ ~_is_legacy_format(at_begin[p].manifest.doc)
            /\ FilesAsAtBegin(p)
            /\ ~trace[p].completed
            /\ ~trace[p].backup_opened /\ ~trace[p].manifest_opened
            /\ PastCompletion(p) =>
                  /\ tool_data[p] = at_begin[p].manifest.doc
                  /\ \A info \in ReleaseInfos :
                        autocomplete_legacy_manifest(at_begin[p].manifest.doc,
                                                     repo_metrics[p], info)
                        = at_begin[p].manifest.doc

\* a saving run validated a manifest whose only modern field is installation
C7_Witness ==
    \E p \in Procs :
        /\ pc[p] = "return"
        /\ autocomplete_enabled[p] /\ ~dry_run[p]
        /\ "installation" \in DOMAIN at_begin[p].manifest.doc
        /\ manifest_file = at_begin[p].manifest
        /\ results[p].valid

(***************************************************************************)
(* URL canonicalizer                                                       *)
(***************************************************************************)
\* C11: _convert_to_latest_url is idempotent, and a URL it has rewritten
\* no longer has the versioned-download shape
C11_ConvertIsIdempotent ==
    /\ url_stage = "reconverted" => relatest_url = latest_url
    /\ (url_stage # "input" /\ latest_url # original_url)
          => ~VersionedDownloadMatch(latest_url).matched

\* a versioned download URL has been rewritten, and the rewritten URL
\* has been converted again
C11_Witness ==
    /\ url_stage = "reconverted"
    /\ VersionedDownloadMatch(original_url).matched
    /\ latest_url # original_url
    /\ relatest_url = "https://github.com/obsproject/obs-studio/releases/latest"

(***************************************************************************)
(* Installation configuration                                              *)
(***************************************************************************)
\* C12: the configuration has the platforms shape (a platforms mapping,
\* one record per matched platform, no top-level type) exactly when the
\* resolver matched at least one platform, and otherwise is a flat record
\* with a type and no platforms key
C12_ShapeFollowsPlatformMatch ==
    stage = "configured" =>
        IF DOMAIN release_info.platform_assets # {}
        THEN /\ "platforms" \in DOMAIN installation_config
             /\ "type" \notin DOMAIN installation_config
             /\ DOMAIN installation_config["platforms"]
                    = DOMAIN release_info.platform_assets
        ELSE /\ "platforms" \notin DOMAIN installation_config
             /\ "type" \in DOMAIN installation_config

\* a release in which exactly one platform matched has been configured
C12_Witness ==
    /\ stage = "configured"
    /\ Cardinality(DOMAIN release_info.platform_assets) = 1
    /\ "platforms" \in DOMAIN installation_config

\* the run completed a manifest that had no installation block and got one
AddedInstallation(p) ==
    /\ PastCompletion(p)
    /\ trace[p].completed
    /\ "installation" \notin DOMAIN original_tool_data[p]
    /\ "installation" \in DOMAIN tool_data[p]

PlatformRecordFields ==
    {"type", "url", "executable", "args", "postInstall", "checksum", "silent"}

\* C13: completed against a repository without releases, the installation
\* block is flat with type "executable", an empty url and empty args, and a
\* flat block has the fields of a per-platform record
C13_ScenarioBInstallation ==
    \A p \in Procs :
        AddedInstallation(p) =>
            LET installation == tool_data[p]["installation"]
            IN  /\ ~trace[p].release_info.has_releases =>
                      /\ "platforms" \notin DOMAIN installation
                      /\ installation["type"] = "executable"
                      /\ "url" \in DOMAIN installation
                      /\ installation["url"] = ""
                      /\ installation["args"] = <<>>
                /\ "platforms" \notin DOMAIN installation =>
                      DOMAIN installation = PlatformRecordFields

\* C13, as the code has it: without releases the block is exactly type
\* "executable", empty args, empty postInstall and empty checksum, with no
\* url key; a flat block always has those four keys, has executable exactly
\* when the release has a primary asset, has url only together with
\* executable, and never has silent
C13_ScenarioBStub ==
    \A p \in Procs :
        AddedInstallation(p) =>
            LET installation == tool_data[p]["installation"]
                info == trace[p].release_info
            IN  /\ ~info.has_releases =>
                      installation = [type |-> "executable", args |-> <<>>,
                                      postInstall |-> "", checksum |-> ""]
                /\ "platforms" \notin DOMAIN installation =>
                      /\ {"type", "args", "postInstall", "checksum"}
                            \subseteq DOMAIN installation
                      /\ DOMAIN installation \subseteq
                            {"type", "args", "postInstall", "checksum",
                             "executable", "url"}
                      /\ "executable" \in DOMAIN installation
                            <=> info.asset_name # ""
                      /\ "url" \in DOMAIN installation
                            => "executable" \in DOMAIN installation

\* a manifest with only name, description and repository has been completed
\* against a repository without releases
C13_Witness ==
    \E p \in Procs :
        /\ AddedInstallation(p)
        /\ pc[p] = "assess"
        /\ DOMAIN original_tool_data[p] = {"name", "description", "repository"}
        /\ ~trace[p].release_info.has_releases
        /\ tool_data[p]["installation"]["type"] = "executable"
        /\ "url" \notin DOMAIN tool_data[p]["installation"]

(***************************************************************************)
(* Platforms and compatibility added by auto-completion                    *)
(***************************************************************************)
\* the run completed a manifest that had no platforms field
AddedPlatforms(p) ==
    /\ PastCompletion(p)
    /\ trace[p].completed
    /\ "platforms" \notin DOMAIN original_tool_data[p]
    /\ "platforms" \in DOMAIN tool_data[p]
    /\ "compatibility" \in DOMAIN tool_data[p]

\* the compatibility list each primary language leads to
LanguageCompatibility(language) ==
    IF language \in {"Python", "JavaScript", "TypeScript", "Java"}
    THEN <<"windows">>
    ELSE <<"windows", "linux", "macos">>

\* C14: completed against a repository without releases, a manifest
\* without platforms gets a compatibility block whose platforms list is a
\* function of the repository language alone, is not empty and holds only
\* windows, linux and macos, with sunshine true and apollo false
C14_ScenarioBCompatibility ==
    \A p \in Procs :
        (AddedPlatforms(p) /\ ~trace[p].release_info.has_releases) =>
            LET compatibility == tool_data[p]["compatibility"]
            IN  /\ compatibility.platforms
                      = LanguageCompatibility(repo_metrics[p].language)
                /\ compatibility.platforms # <<>>
                /\ \A i \in 1..Len(compatibility.platforms) :
                      compatibility.platforms[i] \in {"windows", "linux", "macos"}
                /\ compatibility.sunshine = TRUE
                /\ compatibility.apollo = FALSE

\* a manifest without platforms has been completed against a repository
\* without releases whose language is Python
C14_Witness ==
    \E p \in Procs :
        /\ AddedPlatforms(p)
        /\ pc[p] = "assess"
        /\ ~trace[p].release_info.has_releases
        /\ repo_metrics[p].language = "Python"
        /\ tool_data[p]["compatibility"].platforms = <<"windows">>

\* the release answer a release info was made from
AnswerOf(info) ==
    CHOOSE answer \in ReleaseAnswers : _get_github_releases_info(answer) = info

\* C15: when the latest release has assets, the platforms field that
\* auto-completion adds holds the names the keyword scan of the asset names
\* gives
C15_PlatformsFromAssetScan ==
    \A p \in Procs :
        (AddedPlatforms(p) /\ Len(AnswerOf(trace[p].release_info).assets) > 0) =>
            LET scanned == _detect_platforms_from_releases(
                               AnswerOf(trace[p].release_info).assets,
                               repo_metrics[p].language)
                added == tool_data[p]["platforms"]
            IN  {added[i] : i \in 1..Len(added)}
                    = {scanned[i] : i \in 1..Len(scanned)}

(***************************************************************************)
(* Scores                                                                  *)
(***************************************************************************)
\* C16: calculate_quality_score and _calculate_health_score return an
\* integer between 0 and 100
C16_ScoresInRange ==
    /\ score_stage \in {"quality", "health"} => quality_score \in 0..100
    /\ score_stage = "health" => health_score \in 0..100

\* both scorers have run, the health scorer on three critical issues,
\* which take its sum below 0
C16_Witness ==
    /\ score_stage = "health"
    /\ Len(health_issues) >= 3
    /\ health_metrics.pushed_at = 400
    /\ health_score = 0
    /\ quality_score = 0

\* C17: with everything else equal, more stars never give a lower quality
\* score, and more forks never give a lower quality score
C17_QualityMonotone ==
    score_stage \in {"quality", "health"} =>
        /\ \A stars \in StarValues :
              stars > score_metrics.stars =>
                  QualityScore(score_data, [score_metrics EXCEPT !.stars = stars],
                               score_weights) >= quality_score
        /\ \A forks \in 0..MaxForks :
              forks > score_metrics.forks =>
                  QualityScore(score_data, [score_metrics EXCEPT !.forks = forks],
                               score_weights) >= quality_score

\* a manifest has been scored with 59 stars, below the cap of the stars
\* score, and its score is lower than the one 61 stars give
C17_Witness ==
    /\ score_stage = "quality"
    /\ score_metrics.stars = 59
    /\ score_weights.stars > 0
    /\ QualityScore(score_data, [score_metrics EXCEPT !.stars = 61], score_weights)
           > quality_score

\* the health score of the same metrics with "Repository is archived"
\* added to the issues
ArchivedScore ==
    _calculate_health_score(health_metrics,
                            <<"Repository is archived">> \o health_issues)

NotArchived ==
    \A i \in 1..Len(health_issues) : health_issues[i] # "Repository is archived"

\* C18: the archived issue lowers the health score by at least 50
C18_ArchivedCostsFifty ==
    (score_stage = "health" /\ NotArchived) => ArchivedScore <= health_score - 50

\* C18, as the code has it: the archived issue never raises the health
\* score and lowers it by at most 45; it lowers it by at least 8 when no
\* other critical issue is present
C18_ArchivedCostsUpToFortyFive ==
    (score_stage = "health" /\ NotArchived) =>
        /\ ArchivedScore <= health_score
        /\ ArchivedScore >= health_score - 45
        /\ (\A i \in 1..Len(health_issues) : ~IsCritical(health_issues[i]))
              => ArchivedScore <= health_score - 8

\* a repository without critical issues has been scored 100, and the
\* archived issue would bring the same metrics to 92
C18_Witness ==
    /\ score_stage = "health"
    /\ health_issues = <<>>
    /\ health_score = 100
    /\ ArchivedScore = 92

(***************************************************************************)
(* Errors of a validate_single_tool run                                    *)
(***************************************************************************)
\* what validate_github_repository says when the request raises or the API
\* answers with another status than 200
RemoteErrors ==
    {"[ERROR] Error accessing repository", "[ERROR] Repository not found",
     "[ERROR] GitHub API error"}

\* C19: a run in which fetching the repository failed goes on to the
\* document and the schema, and is valid unless it has other errors
C19_RemoteErrorIsRecoverable ==
    \A p \in Procs :
        (/\ pc[p] = "return"
         /\ Recorded(results[p].errors \o results[p].warnings, RemoteErrors)) =>
            /\ tool_data[p] # <<>>
            /\ (\A i \in 1..Len(results[p].errors) :
                    results[p].errors[i] \in RemoteErrors) => results[p].valid

\* the run found no manifest to load: the file is missing or is not JSON
LoadFailed(p) == at_begin[p].manifest.kind \in {"absent", "partial"}

SchemaRejected(p) == Recorded(results[p].errors, {"Schema validation failed"})

\* C20: a run whose manifest is missing, is not JSON or is rejected by the
\* schema returns the error, valid = false and score 0, and has not come
\* to the score and its review threshold
C20_InputErrorIsFatal ==
    \A p \in Procs :
        (pc[p] = "return" /\ (LoadFailed(p) \/ SchemaRejected(p))) =>
            /\ results[p].errors # <<>>
            /\ results[p].valid = FALSE
            /\ results[p].score = 0
            /\ ~Recorded(results[p].warnings,
                         {"[WARNING] Score below review threshold"})

\* a completed document has been rejected by the schema, and the run is
\* about to return
C20_Witness ==
    \E p \in Procs :
        /\ pc[p] = "return"
        /\ trace[p].completed
        /\ SchemaRejected(p)
        /\ ~LoadFailed(p)
        /\ results[p].score = 0

(***************************************************************************)
(* Best asset per platform                                                 *)
(***************************************************************************)
\* the positions of the assets that are not excluded and match a rule of
\* the platform
Candidates(asset_list, platform) ==
    {i \in 1..Len(asset_list) :
        /\ ~IsExcluded(lower(asset_list[i].name))
        /\ BestPriority(platform, lower(asset_list[i].name)) >= 0}

\* the earliest of the candidates whose best rule has the highest priority
EarliestBest(asset_list, platform) ==
    LET candidates == Candidates(asset_list, platform)
        priority(i) == BestPriority(platform, lower(asset_list[i].name))
    IN  CHOOSE i \in candidates :
            \A j \in candidates :
                \/ priority(j) < priority(i)
                \/ priority(j) = priority(i) /\ i <= j

\* C24: a platform has an entry exactly when some asset that is not
\* excluded matches one of its rules, and the entry is the asset whose best
\* rule has the highest priority, the earliest one when several reach it
C24_BestAssetEarliestOnTie ==
    (stage # "input" /\ response.status = 200) =>
        \A platform \in Platforms :
            IF Candidates(response.assets, platform) = {}
            THEN platform \notin DOMAIN release_info.platform_assets
            ELSE /\ platform \in DOMAIN release_info.platform_assets
                 /\ release_info.platform_assets[platform].asset
                        = response.assets[EarliestBest(response.assets, platform)]

\* two installers of the same priority were offered after a lower one, and
\* the first of the two has been kept
C24_Witness ==
    /\ stage = "resolved"
    /\ response.status = 200
    /\ Len(response.assets) = 3
    /\ response.assets[1].name = "tool-mac.zip"
    /\ response.assets[2].name = "Tool.exe"
    /\ response.assets[3].name = "Setup.exe"
    /\ release_info.platform_assets["windows"].name = "Tool.exe"

(***************************************************************************)
(* The versioned download shape                                            *)
(***************************************************************************)
\* parts are the pieces of
\*   https://github.com/<owner>/<repo>/releases/download/<version>/<filename>
\* with owner, repo, version and filename not empty
IsVersionedDownload(parts) ==
    /\ Len(parts) >= 9
    /\ parts[1] = "https:" /\ parts[2] = "" /\ parts[3] = "github.com"
    /\ parts[4] # "" /\ parts[5] # ""
    /\ parts[6] = "releases" /\ parts[7] = "download"
    /\ parts[8] # ""
    /\ (Len(parts) > 9 \/ parts[9] # "")

\* C25: a URL of the versioned download shape becomes the releases/latest
\* URL of the same owner and repository; a URL of any other shape (empty,
\* another host or scheme, a missing or empty owner, repository, version or
\* filename) comes back unchanged
C25_VersionedBecomesLatest ==
    url_stage # "input" =>
        LET parts == SplitSlash(original_url)
        IN  IF IsVersionedDownload(parts)
            THEN latest_url = "https://github.com/" \o parts[4] \o "/" \o parts[5]
                                  \o "/releases/latest"
            ELSE latest_url = original_url

\* a versioned download URL of own/rep has been converted
C25_Witness ==
    /\ url_stage = "converted"
    /\ original_url = "https://github.com/own/rep/releases/download/v1/o"
    /\ latest_url = "https://github.com/own/rep/releases/latest"

(***************************************************************************)
(* Per-platform records                                                    *)
(***************************************************************************)
\* C26: in a configuration of the platforms shape the windows and linux
\* records are silent, the macos record is not, and every record has an
\* empty checksum and an empty postInstall
C26_SilentExceptMacos ==
    (stage = "configured" /\ "platforms" \in DOMAIN installation_config) =>
        \A platform \in DOMAIN installation_config["platforms"] :
            LET record == installation_config["platforms"][platform]
            IN  /\ platform \in {"windows", "linux"} => record.silent = TRUE
                /\ platform = "macos" => record.silent = FALSE
                /\ record.checksum = ""
                /\ record.postInstall = ""

\* a release with a macOS disk image and a Windows installer has been
\* configured
C26_Witness ==
    /\ stage = "configured"
    /\ "platforms" \in DOMAIN installation_config
    /\ {"macos", "windows"} \subseteq DOMAIN installation_config["platforms"]
    /\ installation_config["platforms"]["macos"].silent = FALSE
    /\ installation_config["platforms"]["windows"].silent = TRUE

(***************************************************************************)
(* Pattern verification                                                    *)
(***************************************************************************)
PatternMessages == UNION {{m[i] : i \in 1..Len(m)} : m \in PatternVerifications}

\* C27: no message of the pattern verification is among a run's errors,
\* and a run that recorded one, the report of a failed verification
\* included, is valid exactly when its errors are empty
C27_PatternMessagesAreWarnings ==
    \A p \in Procs :
        /\ ~Recorded(results[p].errors, PatternMessages)
        /\ (pc[p] = "return" /\ Recorded(results[p].warnings, PatternMessages))
              => results[p].valid = (results[p].errors = <<>>)

\* the verification failed with an exception, and the run is valid
C27_Witness ==
    \E p \in Procs :
        /\ pc[p] = "return"
        /\ Recorded(results[p].warnings, {"[ERROR] Pattern verification failed"})
        /\ results[p].errors = <<>>
        /\ results[p].valid = TRUE

(***************************************************************************)
(* Persist, then validate                                                  *)
(***************************************************************************)
\* the run wrote the whole completed document to the manifest file
Saved(p) == trace[p].manifest_opened /\ trace[p].failed = "none"

\* C30: a run that saved its completion comes to the schema validation
\* with the completed document already in the manifest file; when the
\* schema then rejects the document the run returns valid = false and
\* score 0, and the file still holds the completed document, not the
\* document the run found
C30_PersistedBeforeSchema ==
    \A p \in Procs :
        /\ (pc[p] = "schema" /\ Saved(p)) => manifest_file = Json(tool_data[p])
        /\ (pc[p] = "return" /\ Saved(p) /\ SchemaRejected(p)) =>
              /\ results[p].valid = FALSE
              /\ results[p].score = 0
              /\ manifest_file = Json(tool_data[p])
              /\ manifest_file # at_begin[p].manifest

\* a saved completion has been rejected by the schema
C30_Witness ==
    \E p \in Procs :
        /\ pc[p] = "return"
        /\ Saved(p)
        /\ SchemaRejected(p)
        /\ at_begin[p].manifest.kind = "json"
        /\ manifest_file = Json(tool_data[p])
        /\ HasModernKey(manifest_file.doc)
        /\ ~HasModernKey(at_begin[p].manifest.doc)

(***************************************************************************)
(* The backup under concurrent runs                                        *)
(***************************************************************************)
\* C28: every step that changes the backup file leaves in it a document
\* with none of installation, uninstallation, compatibility and slug, or,
\* when the dump raised, a truncated file; never a completed manifest
C28_BackupStaysLegacy ==
    [][backup_file' # backup_file =>
          \/ backup_file' = Partial
          \/ /\ backup_file'.kind = "json"
             /\ _is_legacy_format(backup_file'.doc)]_vars

\* both processes loaded the legacy manifest; the first has overwritten it
\* with its completion, then the second has written the backup
C28_Witness ==
    /\ \A p \in RaceProcs : _is_legacy_format(original_tool_data[p])
                               /\ original_tool_data[p] # <<>>
    /\ pc[1] = "schema" /\ trace[1].manifest_opened
    /\ pc[2] = "write_manifest" /\ trace[2].backup_opened
    /\ manifest_file.kind = "json" /\ HasModernKey(manifest_file.doc)
    /\ backup_file = Json(original_tool_data[2])

(***************************************************************************)
(* Verification: status, batch, update, exit code                          *)
(***************************************************************************)
\* the results verify_single_tool has returned so far
ReturnedResults ==
    {outcomes[path].result :
        path \in {q \in Paths : futures[q] \in {"finished", "yielded"}
                                 /\ ~outcomes[q].raised}}
    \cup (IF args.single # "" THEN {batch_results[i] : i \in 1..Len(batch_results)}
          ELSE {})

Accessible(result) == Get(result.repository, "accessible", FALSE)

\* C29: a result of verify_single_tool has one of the four statuses and
\* never "unknown"; it is "failed" when the repository was not accessible
\* (no repository URL, a file that cannot be read or parsed, a failed
\* request); "verified" only with an accessible repository and a score of
\* at least 80; "conditional" only with an accessible repository and a
\* score from 60 to 79
C29_StatusFollowsAccessAndScore ==
    \A result \in ReturnedResults :
        /\ result.status \in {"verified", "conditional", "needs_review", "failed"}
        /\ ~Accessible(result) => result.status = "failed"
        /\ result.status = "verified"
              => Accessible(result) /\ result.overall_score >= 80
        /\ result.status = "conditional"
              => /\ Accessible(result)
                 /\ result.overall_score >= 60
                 /\ result.overall_score < 80

\* one task has returned "verified" with a score of exactly 80, the other
\* "failed" for a file that is not JSON
C29_Witness ==
    /\ futures = [path \in Paths |-> "finished"]
    /\ ~outcomes["a.json"].raised /\ ~outcomes["b.json"].raised
    /\ outcomes["a.json"].result.status = "verified"
    /\ outcomes["a.json"].result.overall_score = 80
    /\ tool_files["b.json"] = Partial
    /\ outcomes["b.json"].result.status = "failed"
    /\ outcomes["b.json"].result.repository = <<>>

\* what the batch has to hold for a path whose future was yielded
Delivered(path) ==
    IF outcomes[path].raised THEN FailureRecord(path) ELSE outcomes[path].result

\* C21: in every state of the batch the results list holds one entry for
\* each future that was yielded and none for any other path; the entry is
\* what that path's own task produced, with status "failed" when the task
\* raised or could not read its file; so when the batch returns there is
\* exactly one result per submitted path, whatever the order of completion
C21_OneResultPerPath ==
    args.single = "" =>
        /\ \A path \in Paths :
              Cardinality({i \in 1..Len(batch_results) :
                              batch_results[i].file = path})
                  = IF futures[path] = "yielded" THEN 1 ELSE 0
        /\ \A i \in 1..Len(batch_results) :
              LET path == batch_results[i].file
              IN  /\ batch_results[i] = Delivered(path)
                  /\ (outcomes[path].raised \/ files_at_start[path].kind # "json")
                        => batch_results[i].status = "failed"
        /\ main_pc \in {"update", "done", "exited"}
              => \A path \in Paths : futures[path] \in {"none", "yielded"}

\* the batch has returned; the second path finished first and is verified,
\* the task of the first raised and is recorded as failed
C21_Witness ==
    /\ args.single = ""
    /\ main_pc \in {"update", "done"}
    /\ Len(batch_results) = 2
    /\ batch_results[1].file = "b.json"
    /\ batch_results[1].status = "verified"
    /\ outcomes["a.json"].raised
    /\ batch_results[2] = FailureRecord("a.json")

\* C22: a manifest file that main has changed is a JSON document with
\* every key other than verification and metrics as main found it, and
\* an update that returned true left its result in the file
C22_UpdateKeepsOtherKeys ==
    /\ \A path \in Paths :
          tool_files[path] # files_at_start[path] =>
              /\ tool_files[path].kind = "json"
              /\ files_at_start[path].kind = "json"
              /\ DOMAIN tool_files[path].doc
                    \subseteq DOMAIN files_at_start[path].doc
                                \cup {"verification", "metrics"}
              /\ \A k \in DOMAIN files_at_start[path].doc
                            \ {"verification", "metrics"} :
                    /\ k \in DOMAIN tool_files[path].doc
                    /\ tool_files[path].doc[k] = files_at_start[path].doc[k]
    /\ \A i \in 1..Len(update_returns) :
          update_returns[i] =>
              /\ tool_files[batch_results[i].file].kind = "json"
              /\ "verification" \in DOMAIN tool_files[batch_results[i].file].doc

\* C23: main exits with code 1 when a result has the status "failed" or
\* the run was interrupted, and with code 0 otherwise
C23_ExitCodeReportsFailure ==
    /\ main_pc = "exited" =>
          exit_code = IF \E i \in 1..Len(batch_results) :
                             batch_results[i].status = "failed"
                      THEN 1 ELSE 0
    /\ main_pc = "interrupted" => exit_code = 1

====
